---- MODULE Spec2Model ----
(***************************************************************************)
(* Akhdar BI Command Center: the ETL pipeline (etl/run_all.py,             *)
(* etl/ingest_raw.py, etl/build_staging.py, etl/build_dimensions.py,       *)
(* etl/build_facts.py) as a state machine.                                 *)
(*                                                                         *)
(* Spec      the orchestrator: stage order, the stage selector, the        *)
(*           per-statement-group transactions (execute, commit, rollback)  *)
(*           and the handling of failures.  A table's content is the set   *)
(*           of row tags it holds; a tag says whether the row was inserted *)
(*           by the current run ("new") or by an earlier one ("old") and,  *)
(*           for fact_order_line, whether its COGS columns are still NULL. *)
(*                                                                         *)
(* SpecData  the transforms on rows: raw.orders is drawn from a bounded    *)
(*           set of rows, and the statement groups that build stg_orders,  *)
(*           stg_order_lines, dim_shipping_method and fact_order are run   *)
(*           in pipeline order, twice, each as the SQL computes it.  A     *)
(*           table without a generated key is a bag of rows (a function    *)
(*           from row to multiplicity); money is in cents; a nullable      *)
(*           value is the empty set (NULL) or a singleton.                 *)
(*                                                                         *)
(* SpecDims, SpecLines and SpecCogs run the same statement groups once, on *)
(* orders that differ in email, source and shipping method, on orders of   *)
(* several line items, and on recipes and material costs.                  *)
(***************************************************************************)
EXTENDS Integers, Sequences, FiniteSets, TLC

VARIABLES
    pc,         \* the function being executed: "idle" outside main()
    grp,        \* index of the statement / statement group inside the stage
    phase,      \* "exec" before conn.execute, "commit" before conn.commit
    step,       \* args.step of the current run
    hasFK,      \* whether the warehouse schema declares the foreign keys
    schema,     \* schema statements that have taken effect
    raw,        \* raw.* tables: "absent", or loaded by this run / an earlier
    db,         \* committed content of the staging.* and warehouse.* tables
    tx,         \* content as seen inside the open transaction of conn
    marts,      \* mart statements that have taken effect
    grpSnap,    \* committed content when the current conn.execute began
    stageSnap,  \* committed content when the current stage began
    log,        \* what this run has done so far, in order
    exitStatus, \* exit status of the run ("0", "1"), "none" until it ends
    \* ---- rows (SpecData) ----
    dpc,               \* the statement group to execute next, "off" in Spec
    pass,              \* 1 during the first build, 2 during the rebuild
    rawOrders,         \* raw.orders (bag)
    rawCustomers,      \* raw.customers (bag)
    rawSkuMap,         \* raw.product_sku_map (bag)
    stgOrders,         \* staging.stg_orders (bag)
    stgOrderLines,     \* staging.stg_order_lines (bag)
    stgCustomers,      \* staging.stg_customers (bag)
    stgProductSkuMap,  \* staging.stg_product_sku_map (bag)
    dimProduct,        \* warehouse.dim_product (set, keyed)
    dimCustomer,       \* warehouse.dim_customer (set, keyed)
    dimShippingMethod, \* warehouse.dim_shipping_method (set, keyed)
    factOrder,         \* warehouse.fact_order (bag, order_key left out)
    factOrderLine,     \* warehouse.fact_order_line (bag, keys left out)
    seqProduct,        \* last value of the product_key sequence
    seqCustomer,       \* last value of the customer_key sequence
    seqShippingMethod, \* last value of the shipping_method_key sequence
    firstBuild,        \* the tables as the first build left them
    \* ---- recipes and costs (SpecCogs) ----
    cpc,               \* the cost statement group to execute next, or "off"
    rawMaterialCosts,  \* raw.material_costs (bag)
    rawRecipes,        \* raw.recipes (bag)
    stgMaterialCosts,  \* staging.stg_material_costs (bag)
    stgRecipes,        \* staging.stg_recipes (bag)
    dimMaterial,       \* warehouse.dim_material (bag, material_key left out)
    factCogsEstimate,  \* warehouse.fact_cogs_estimate (bag, key left out)
    lineCogs           \* the cost columns of fact_order_line, by row; a row
                       \* that is not in the domain has them NULL

ctlVars == <<pc, grp, phase, step, hasFK, schema, raw, db, tx, marts,
             grpSnap, stageSnap, log, exitStatus>>

dataVars == <<dpc, pass, rawOrders, rawCustomers, rawSkuMap, stgOrders,
              stgOrderLines, stgCustomers, stgProductSkuMap, dimProduct,
              dimCustomer, dimShippingMethod, factOrder, factOrderLine,
              seqProduct, seqCustomer, seqShippingMethod, firstBuild>>

cogsVars == <<cpc, rawMaterialCosts, rawRecipes, stgMaterialCosts,
              stgRecipes, dimMaterial, factCogsEstimate, lineCogs>>

vars == <<ctlVars, dataVars, cogsVars>>

Steps == {"load", "build", "all"}

(***************************************************************************)
(* Tables                                                                  *)
(***************************************************************************)
RawTables ==
    {"orders", "products", "customers", "discounts", "product_sku_map",
     "material_costs", "recipes", "meta_ads", "gsc_daily"}

StagingMandatory ==
    <<"stg_orders", "stg_order_lines", "stg_products", "stg_customers",
      "stg_product_sku_map", "stg_material_costs", "stg_recipes">>

StagingOptional == <<"stg_meta_ads", "stg_gsc_daily">>

StagingGroups == StagingMandatory \o StagingOptional

DimGroups ==
    <<"dim_product", "dim_customer", "dim_shipping_method", "dim_material">>

FactGroups ==
    <<"fact_order", "fact_order_line", "fact_cogs_estimate", "cogs_update",
      "fact_marketing_spend", "fact_gsc_daily">>

Range(s) == {s[i] : i \in DOMAIN s}

StagingTables == Range(StagingGroups)
DimTables == Range(DimGroups)
FactTables == Range(FactGroups) \ {"cogs_update"}
CoreFactTables == {"fact_order", "fact_order_line", "fact_cogs_estimate"}
Tables == StagingTables \cup DimTables \cup FactTables

GroupsOf(stage) ==
    CASE stage = "build_staging_tables" -> StagingGroups
      [] stage = "build_dimensions" -> DimGroups
      [] stage = "build_facts" -> FactGroups
      [] OTHER -> <<>>

\* The statement groups wrapped in try/except inside build_staging_tables.
IsOptional(g) == g \in Range(StagingOptional)

\* Whether an exception raised by conn.execute of group g leaves the stage.
PropagatesAlways(g) == TRUE
PropagatesNever(g) == FALSE
Propagates(g) == ~IsOptional(g)

(***************************************************************************)
(* Rows and statements                                                     *)
(***************************************************************************)
Tag(r, c) == [build |-> r, cogs |-> c]

\* A new invocation of main(): what the last one inserted is now old.
Age(d) == [t \in DOMAIN d |-> {[x EXCEPT !.build = "old"] : x \in d[t]}]
AgeRaw(d) == [t \in DOMAIN d |-> IF d[t] = "new" THEN "old" ELSE d[t]]

\* Tables that reference t by a surrogate key (fact_order.customer_key,
\* fact_order_line.order_key, fact_cogs_estimate.order_line_key, ...):
\* TRUNCATE t CASCADE empties them too when the constraint is declared.
Referencing(t) ==
    CASE t = "dim_product" -> {"fact_order_line", "fact_cogs_estimate"}
      [] t = "dim_customer" ->
             {"fact_order", "fact_order_line", "fact_cogs_estimate"}
      [] t = "dim_shipping_method" ->
             {"fact_order", "fact_order_line", "fact_cogs_estimate"}
      [] t = "dim_material" -> {"fact_cogs_estimate"}
      [] t = "fact_order" -> {"fact_order_line", "fact_cogs_estimate"}
      [] t = "fact_order_line" -> {"fact_cogs_estimate"}
      [] OTHER -> {}

\* TRUNCATE TABLE g CASCADE
Truncate(d, g, fk) ==
    [t \in DOMAIN d |->
        IF t = g \/ (fk /\ t \in Referencing(g)) THEN {} ELSE d[t]]

\* INSERT INTO g ... SELECT ...; fact_order_line rows get NULL COGS columns.
Insert(d, g, r) ==
    [d EXCEPT ![g] = @ \cup
        {Tag(r, IF g = "fact_order_line" THEN "null" ELSE "na")}]

\* The two UPDATEs of fact_order_line: every row ends with its COGS set.
UpdateCogs(d) ==
    [d EXCEPT !["fact_order_line"] = {[x EXCEPT !.cogs = "set"] : x \in @}]

\* The text of one conn.execute call applied to the transaction's view.
GroupEffect(d, g, r, fk) ==
    IF g = "cogs_update" THEN UpdateCogs(d)
    ELSE Insert(Truncate(d, g, fk), g, r)

\* The view inside the transaction when the call raises part-way: before the
\* first statement changed anything, or after the TRUNCATE and before the
\* INSERT finished.
PartialEffects(d, g, fk) ==
    IF g = "cogs_update" THEN {d} ELSE {d, Truncate(d, g, fk)}

\* conn.commit() and conn.rollback() (also done on closing the connection).
Commit(committed, view) == view
NoRollback(committed, view) == view
Rollback(committed, view) == committed

(***************************************************************************)
(* run_pipeline: which stages a run executes, in order                      *)
(***************************************************************************)
LoadStages == <<"init_database", "load_raw_data">>
BuildStages ==
    <<"build_staging_tables", "build_dimensions", "build_facts", "build_marts">>

RunsLoad(s) == s \in {"all", "load"}
RunsBuildAlways(s) == TRUE
RunsBuild(s) == s \in {"all", "build"}

StagesSwapped(s) ==
    (IF RunsLoad(s) THEN LoadStages ELSE <<>>)
    \o (IF RunsBuild(s)
        THEN <<"build_staging_tables", "build_facts", "build_dimensions",
               "build_marts">>
        ELSE <<>>)
    \o <<"print_summary">>
StagesOf(s) ==
    (IF RunsLoad(s) THEN LoadStages ELSE <<>>)
    \o (IF RunsBuild(s) THEN BuildStages ELSE <<>>)
    \o <<"print_summary">>

IndexOf(seq, x) == CHOOSE i \in DOMAIN seq : seq[i] = x

\* The stage run_pipeline calls after `stage` returns.
NextStage(s, stage) == StagesOf(s)[IndexOf(StagesOf(s), stage) + 1]

\* run_pipeline calls `stage`: its first statement (group) is about to execute.
Enter(stage) ==
    /\ pc' = stage
    /\ grp' = 1
    /\ phase' = "exec"
    /\ stageSnap' = db

(***************************************************************************)
(* init_database and build_marts: the statements of the .sql files          *)
(***************************************************************************)
\* The statements read from sql/schema/*.sql, in file order.  A "create"
\* statement succeeds once and fails with its message when the object is
\* there; a "broken" statement fails with its message every time.
SchemaStmts ==
    <<[kind |-> "create", msg |-> "relation \"stg_orders\" already exists"],
      [kind |-> "broken", msg |-> "syntax error at or near \"CREAT\""],
      [kind |-> "create", msg |-> "ERROR: Schema \"raw\" Already Exists"]>>

\* The statements read from sql/marts/*.sql: CREATE OR REPLACE VIEW succeeds
\* every time, a broken statement fails every time.
MartStmts == <<"view", "broken", "view">>

\* str(e).lower()
Lower(m) ==
    CASE m = "ERROR: Schema \"raw\" Already Exists" ->
             "error: schema \"raw\" already exists"
      [] m = "A@x.com" -> "a@x.com"
      [] m = "Local Delivery" -> "local delivery"
      [] OTHER -> m

\* 'already exists' in <text>, a case-sensitive substring test
ContainsAlreadyExists(m) ==
    m \in {"relation \"stg_orders\" already exists",
           "error: schema \"raw\" already exists"}

\* Whether the except clause of init_database logs a warning for message m.
Warns(m) == ~ContainsAlreadyExists(Lower(m))

\* Whether the except clause of init_database re-raises for message m.
InitReraisesUnlessExists(m) == ~ContainsAlreadyExists(Lower(m))
InitReraises(m) == FALSE

(***************************************************************************)
(* Initial state: a fresh database, main() not yet invoked                 *)
(***************************************************************************)
CtlInit ==
    /\ pc = "idle"
    /\ grp = 0
    /\ phase = "none"
    /\ step = "all"
    /\ hasFK \in BOOLEAN
    /\ schema = {}
    /\ raw = [t \in RawTables |-> "absent"]
    /\ db = [t \in Tables |-> {}]
    /\ tx = [t \in Tables |-> {}]
    /\ marts = {}
    /\ grpSnap = [t \in Tables |-> {}]
    /\ stageSnap = [t \in Tables |-> {}]
    /\ log = <<>>
    /\ exitStatus = "none"

\* Spec carries no rows.
DataOff ==
    /\ dpc = "off"
    /\ pass = 0
    /\ rawOrders = <<>>
    /\ rawCustomers = <<>>
    /\ rawSkuMap = <<>>
    /\ stgOrders = <<>>
    /\ stgOrderLines = <<>>
    /\ stgCustomers = <<>>
    /\ stgProductSkuMap = <<>>
    /\ dimProduct = {}
    /\ dimCustomer = {}
    /\ dimShippingMethod = {}
    /\ factOrder = <<>>
    /\ factOrderLine = <<>>
    /\ seqProduct = 0
    /\ seqCustomer = 0
    /\ seqShippingMethod = 0
    /\ firstBuild = <<>>

\* The rows of recipes and costs are not followed.
CogsOff ==
    /\ cpc = "off"
    /\ rawMaterialCosts = <<>>
    /\ rawRecipes = <<>>
    /\ stgMaterialCosts = <<>>
    /\ stgRecipes = <<>>
    /\ dimMaterial = <<>>
    /\ factCogsEstimate = <<>>
    /\ lineCogs = <<>>

Init == CtlInit /\ DataOff /\ CogsOff

(***************************************************************************)
(* Events of the run's log                                                  *)
(***************************************************************************)
E(ev, at) == [ev |-> ev, at |-> at]

BuildStageSet == {"build_staging_tables", "build_dimensions", "build_facts"}

\* Which raw tables one load_raw_data call replaces: a file that is missing,
\* empty or unreadable leaves its table as it was.
LoadOutcomes ==
    {RawTables,
     RawTables \ {"meta_ads", "gsc_daily"},
     {"product_sku_map"}}

CurrentGroup == GroupsOf(pc)[grp]

(***************************************************************************)
(* main and run_pipeline                                                    *)
(***************************************************************************)
\* main() parses --step and calls run_pipeline, which enters its first stage.
Main(s) ==
    /\ pc = "idle"
    /\ step' = s
    /\ exitStatus' = "none"
    /\ log' = <<E("start", StagesOf(s)[1])>>
    /\ pc' = StagesOf(s)[1]
    /\ grp' = 1
    /\ phase' = "exec"
    /\ db' = Age(db)
    /\ tx' = Age(db)
    /\ grpSnap' = Age(db)
    /\ stageSnap' = Age(db)
    /\ raw' = AgeRaw(raw)
    /\ UNCHANGED <<hasFK, schema, marts>>
    /\ UNCHANGED <<dataVars, cogsVars>>

\* The except clause of main: logger.error and sys.exit(1).
MainExcept ==
    /\ pc = "raise"
    /\ pc' = "idle"
    /\ grp' = 0
    /\ phase' = "none"
    /\ exitStatus' = "1"
    /\ log' = Append(log, E("exit", "1"))
    /\ UNCHANGED <<step, hasFK, schema, raw, db, tx, marts, grpSnap,
                   stageSnap>>
    /\ UNCHANGED <<dataVars, cogsVars>>

\* print_summary, whose own failure is only logged; run_pipeline and main
\* then return normally.
PrintSummary ==
    /\ pc = "print_summary"
    /\ pc' = "idle"
    /\ grp' = 0
    /\ phase' = "none"
    /\ exitStatus' = "0"
    /\ log' = log \o <<E("summary", "print_summary"), E("exit", "0")>>
    /\ UNCHANGED <<step, hasFK, schema, raw, db, tx, marts, grpSnap,
                   stageSnap>>
    /\ UNCHANGED <<dataVars, cogsVars>>

(***************************************************************************)
(* init_database                                                            *)
(***************************************************************************)
\* What conn.execute of schema statement st does on a database where the
\* set `done` of statements has taken effect: "ok" or the message it raises.
SchemaOutcome(st, i, done) ==
    IF st.kind = "create" /\ i \notin done THEN "ok" ELSE st.msg

\* One schema statement succeeds and is committed.
InitDatabaseStmtOk ==
    /\ pc = "init_database"
    /\ grp <= Len(SchemaStmts)
    /\ SchemaOutcome(SchemaStmts[grp], grp, schema) = "ok"
    /\ schema' = schema \cup {grp}
    /\ grp' = grp + 1
    /\ log' = Append(log, E("schema_ok", "statement"))
    /\ UNCHANGED <<pc, phase, step, hasFK, raw, db, tx, marts, grpSnap,
                   stageSnap, exitStatus>>
    /\ UNCHANGED <<dataVars, cogsVars>>

\* One schema statement raises with message m: rollback, then the except
\* clause decides about the warning and about going on.
InitDatabaseStmtError ==
    /\ pc = "init_database"
    /\ grp <= Len(SchemaStmts)
    /\ SchemaOutcome(SchemaStmts[grp], grp, schema) # "ok"
    /\ LET m == SchemaOutcome(SchemaStmts[grp], grp, schema)
       IN /\ log' = log \o <<E("schema_error", m)>>
                        \o (IF Warns(m) THEN <<E("warning", m)>> ELSE <<>>)
                        \o (IF InitReraises(m)
                            THEN <<E("raise", "init_database")>> ELSE <<>>)
          /\ IF InitReraises(m)
             THEN /\ pc' = "raise"
                  /\ grp' = 0
                  /\ phase' = "none"
             ELSE /\ pc' = pc
                  /\ grp' = grp + 1
                  /\ phase' = phase
    /\ UNCHANGED <<step, hasFK, schema, raw, db, tx, marts,
                   grpSnap, stageSnap, exitStatus>>
    /\ UNCHANGED <<dataVars, cogsVars>>

InitDatabaseReturn ==
    /\ pc = "init_database"
    /\ grp = Len(SchemaStmts) + 1
    /\ log' = log \o <<E("return", pc), E("start", NextStage(step, pc))>>
    /\ Enter(NextStage(step, pc))
    /\ UNCHANGED <<step, hasFK, schema, raw, db, tx, marts, grpSnap,
                   exitStatus>>
    /\ UNCHANGED <<dataVars, cogsVars>>

(***************************************************************************)
(* load_raw_data                                                            *)
(***************************************************************************)
LoadRawData(loaded) ==
    /\ pc = "load_raw_data"
    /\ raw' = [t \in RawTables |-> IF t \in loaded THEN "new" ELSE raw[t]]
    /\ log' = log \o <<E("return", pc), E("start", NextStage(step, pc))>>
    /\ Enter(NextStage(step, pc))
    /\ UNCHANGED <<step, hasFK, schema, db, tx, marts, grpSnap,
                   exitStatus>>
    /\ UNCHANGED <<dataVars, cogsVars>>

(***************************************************************************)
(* build_staging_tables, build_dimensions, build_facts                      *)
(***************************************************************************)
\* conn.execute of the current statement group succeeds.
ExecGroup ==
    /\ pc \in BuildStageSet
    /\ phase = "exec"
    /\ grp <= Len(GroupsOf(pc))
    /\ tx' = GroupEffect(tx, CurrentGroup, "new", hasFK)
    /\ grpSnap' = db
    /\ phase' = "commit"
    /\ log' = Append(log, E("exec", CurrentGroup))
    /\ UNCHANGED <<pc, grp, step, hasFK, schema, raw, db, marts,
                   stageSnap, exitStatus>>
    /\ UNCHANGED <<dataVars, cogsVars>>

\* conn.execute of the current statement group raises.
ExecGroupFail ==
    /\ pc \in BuildStageSet
    /\ phase = "exec"
    /\ grp <= Len(GroupsOf(pc))
    /\ tx' \in PartialEffects(tx, CurrentGroup, hasFK)
    /\ grpSnap' = db
    /\ phase' = "except"
    /\ log' = Append(log, E("fail", CurrentGroup))
    /\ UNCHANGED <<pc, grp, step, hasFK, schema, raw, db, marts,
                   stageSnap, exitStatus>>
    /\ UNCHANGED <<dataVars, cogsVars>>

\* raw.meta_ads has no campaign_name column: nothing is executed for it.
SkipMetaAds ==
    /\ pc = "build_staging_tables"
    /\ phase = "exec"
    /\ grp <= Len(GroupsOf(pc))
    /\ CurrentGroup = "stg_meta_ads"
    /\ grp' = grp + 1
    /\ log' = Append(log, E("skip", CurrentGroup))
    /\ UNCHANGED <<pc, phase, step, hasFK, schema, raw, db, tx, marts,
                   grpSnap, stageSnap, exitStatus>>
    /\ UNCHANGED <<dataVars, cogsVars>>

\* conn.commit() after a successful conn.execute.
CommitGroup ==
    /\ pc \in BuildStageSet
    /\ phase = "commit"
    /\ db' = Commit(db, tx)
    /\ tx' = Commit(db, tx)
    /\ grp' = grp + 1
    /\ phase' = "exec"
    /\ log' = Append(log, E("commit", CurrentGroup))
    /\ UNCHANGED <<pc, step, hasFK, schema, raw, marts, grpSnap,
                   stageSnap, exitStatus>>
    /\ UNCHANGED <<dataVars, cogsVars>>

\* The exception of an optional group is caught: rollback, warning, go on.
CatchOptional ==
    /\ pc \in BuildStageSet
    /\ phase = "except"
    /\ ~Propagates(CurrentGroup)
    /\ db' = Rollback(db, tx)
    /\ tx' = Rollback(db, tx)
    /\ grp' = grp + 1
    /\ phase' = "exec"
    /\ log' = Append(log, E("caught", CurrentGroup))
    /\ UNCHANGED <<pc, step, hasFK, schema, raw, marts, grpSnap,
                   stageSnap, exitStatus>>
    /\ UNCHANGED <<dataVars, cogsVars>>

\* The exception leaves the with block (the connection closes, which rolls
\* the open transaction back), the stage and run_pipeline.
Propagate ==
    /\ pc \in BuildStageSet
    /\ phase = "except"
    /\ Propagates(CurrentGroup)
    /\ db' = Rollback(db, tx)
    /\ tx' = Rollback(db, tx)
    /\ pc' = "raise"
    /\ grp' = 0
    /\ phase' = "none"
    /\ log' = Append(log, E("raise", CurrentGroup))
    /\ UNCHANGED <<step, hasFK, schema, raw, marts, grpSnap, stageSnap,
                   exitStatus>>
    /\ UNCHANGED <<dataVars, cogsVars>>

\* The stage's last group is done: it returns and run_pipeline calls the next.
StageReturn ==
    /\ pc \in BuildStageSet
    /\ phase = "exec"
    /\ grp = Len(GroupsOf(pc)) + 1
    /\ log' = log \o <<E("return", pc), E("start", NextStage(step, pc))>>
    /\ Enter(NextStage(step, pc))
    /\ UNCHANGED <<step, hasFK, schema, raw, db, tx, marts, grpSnap,
                   exitStatus>>
    /\ UNCHANGED <<dataVars, cogsVars>>

(***************************************************************************)
(* build_marts                                                              *)
(***************************************************************************)
BuildMartsStmtOk ==
    /\ pc = "build_marts"
    /\ grp <= Len(MartStmts)
    /\ MartStmts[grp] = "view"
    /\ marts' = marts \cup {grp}
    /\ grp' = grp + 1
    /\ log' = Append(log, E("mart_ok", "statement"))
    /\ UNCHANGED <<pc, phase, step, hasFK, schema, raw, db, tx, grpSnap,
                   stageSnap, exitStatus>>
    /\ UNCHANGED <<dataVars, cogsVars>>

BuildMartsStmtError ==
    /\ pc = "build_marts"
    /\ grp <= Len(MartStmts)
    /\ MartStmts[grp] = "broken"
    /\ grp' = grp + 1
    /\ log' = log \o <<E("mart_error", "statement"),
                       E("warning", "statement")>>
    /\ UNCHANGED <<pc, phase, step, hasFK, schema, raw, db, tx, marts,
                   grpSnap, stageSnap, exitStatus>>
    /\ UNCHANGED <<dataVars, cogsVars>>

BuildMartsReturn ==
    /\ pc = "build_marts"
    /\ grp = Len(MartStmts) + 1
    /\ log' = log \o <<E("return", pc), E("start", NextStage(step, pc))>>
    /\ Enter(NextStage(step, pc))
    /\ UNCHANGED <<step, hasFK, schema, raw, db, tx, marts, grpSnap,
                   exitStatus>>
    /\ UNCHANGED <<dataVars, cogsVars>>

Next ==
    \/ \E s \in Steps : Main(s)
    \/ MainExcept
    \/ PrintSummary
    \/ InitDatabaseStmtOk
    \/ InitDatabaseStmtError
    \/ InitDatabaseReturn
    \/ \E loaded \in LoadOutcomes : LoadRawData(loaded)
    \/ ExecGroup
    \/ ExecGroupFail
    \/ SkipMetaAds
    \/ CommitGroup
    \/ CatchOptional
    \/ Propagate
    \/ StageReturn
    \/ BuildMartsStmtOk
    \/ BuildMartsStmtError
    \/ BuildMartsReturn

Spec == Init /\ [][Next]_vars

(***************************************************************************)
(* Reading the log                                                          *)
(***************************************************************************)
Has(ev, at) == \E i \in DOMAIN log : log[i] = E(ev, at)

\* The stages this run has entered, in order.
Started == [i \in 1..Len(SelectSeq(log, LAMBDA e : e.ev = "start")) |->
               SelectSeq(log, LAMBDA e : e.ev = "start")[i].at]

IsPrefix(a, b) == Len(a) <= Len(b) /\ \A i \in DOMAIN a : a[i] = b[i]

Running == pc # "idle"
Finished == pc = "idle" /\ exitStatus # "none"

\* Table t holds exactly the rows this run's rebuild gives it.
Rebuilt(d, t) ==
    d[t] = {Tag("new", IF t = "fact_order_line" THEN "set" ELSE "na")}

AllStages == LoadStages \o BuildStages \o <<"print_summary">>

(***************************************************************************)
(* C1: in a run with step 'all' the stages start in the order               *)
(* init_database, load_raw_data, build_staging_tables, build_dimensions,    *)
(* build_facts, build_marts, each right after the previous one returned,    *)
(* and when build_facts starts the four dimension tables hold this run's    *)
(* committed rebuild.                                                       *)
(***************************************************************************)
C1_StageOrder ==
    step = "all" =>
        /\ IsPrefix(Started, AllStages)
        /\ \A i \in DOMAIN log :
              (log[i].ev = "start" /\ i > 1) =>
                  \E k \in 2..Len(AllStages) :
                      /\ log[i].at = AllStages[k]
                      /\ log[i - 1] = E("return", AllStages[k - 1])
        /\ Has("start", "build_facts") =>
              \A d \in DimTables :
                  /\ Has("commit", d)
                  /\ Rebuilt(db, d)

C1_Witness ==
    /\ step = "all"
    /\ Finished
    /\ exitStatus = "0"
    /\ Started = AllStages

(***************************************************************************)
(* C2: a 'load' run starts only init_database and load_raw_data (and the    *)
(* summary) and changes no staging, dimension or fact table; a 'build' run  *)
(* starts only the four build stages (and the summary) and changes neither  *)
(* the schema nor a raw table; an 'all' run starts both groups, the load    *)
(* group first.                                                             *)
(***************************************************************************)
C2_StagesOfStep ==
    LET expected ==
            CASE step = "load" -> LoadStages \o <<"print_summary">>
              [] step = "build" -> BuildStages \o <<"print_summary">>
              [] OTHER -> AllStages
    IN /\ IsPrefix(Started, expected)
       /\ (Finished /\ exitStatus = "0") => Started = expected

C2_Frame ==
    Running =>
        /\ step = "load" => db' = db
        /\ step = "build" => (schema' = schema /\ raw' = raw)

C3_MandatoryFailureAborts ==
    \A i \in DOMAIN log :
        (log[i].ev = "fail" /\ ~IsOptional(log[i].at)) =>
            /\ Len(log) <= i + 2
            /\ Len(log) > i => log[i + 1] = E("raise", log[i].at)
            /\ Len(log) > i + 1 => log[i + 2] = E("exit", "1")
            /\ exitStatus \in {"none", "1"}
            /\ Finished => exitStatus = "1"

C3_Witness ==
    /\ Finished
    /\ exitStatus = "1"
    /\ Has("fail", "dim_customer")
    /\ ~Has("start", "build_facts")

(***************************************************************************)
(* C4 as claimed: a failing schema statement whose message does not         *)
(* contain 'already exists' (case-insensitively) aborts the run, so         *)
(* nothing but the warning, the raise and the exit follows it.              *)
(***************************************************************************)
C4_Original ==
    \A i \in DOMAIN log :
        (log[i].ev = "schema_error"
         /\ ~ContainsAlreadyExists(Lower(log[i].at))) =>
            /\ \A j \in (i + 1)..Len(log) :
                  log[j].ev \in {"warning", "raise", "exit"}
            /\ Finished => exitStatus = "1"

(***************************************************************************)
(* C4 amended: a failing schema statement never aborts the run, whatever    *)
(* its message: init_database raises nothing, every schema statement is     *)
(* executed before it returns, and the message only decides whether a       *)
(* warning is logged (it is iff the message does not contain 'already       *)
(* exists', case-insensitively).                                            *)
(***************************************************************************)
C4_Amended ==
    /\ ~Has("raise", "init_database")
    /\ Has("return", "init_database") =>
          Len(SelectSeq(log, LAMBDA e : e.ev \in {"schema_ok", "schema_error"}))
              = Len(SchemaStmts)
    /\ \A i \in DOMAIN log :
          log[i].ev = "schema_error" =>
              LET warned == i < Len(log) /\ log[i + 1] = E("warning", log[i].at)
              IN warned <=> ~ContainsAlreadyExists(Lower(log[i].at))
    /\ (Finished /\ step = "load") => exitStatus = "0"

C4_Witness ==
    /\ Finished
    /\ exitStatus = "0"
    /\ \E i \in DOMAIN log :
          /\ log[i].ev = "schema_error"
          /\ ~ContainsAlreadyExists(Lower(log[i].at))
    /\ \E i \in DOMAIN log :
          /\ log[i].ev = "schema_error"
          /\ ContainsAlreadyExists(Lower(log[i].at))
          /\ ~ContainsAlreadyExists(log[i].at)

(***************************************************************************)
(* C5: an optional staging group that raises never aborts the run: the      *)
(* exception is caught, after stg_meta_ads the stg_gsc_daily group is       *)
(* still attempted, after stg_gsc_daily build_staging_tables returns, and   *)
(* a run in which no mandatory group raised goes through build_dimensions,  *)
(* build_facts and build_marts and exits with status 0.                     *)
(***************************************************************************)
C5_OptionalFailureTolerated ==
    /\ \A i \in DOMAIN log :
          (log[i].ev = "fail" /\ IsOptional(log[i].at)) =>
              /\ Len(log) > i => log[i + 1] = E("caught", log[i].at)
              /\ (log[i].at = "stg_meta_ads" /\ Len(log) > i + 1) =>
                    /\ log[i + 2].at = "stg_gsc_daily"
                    /\ log[i + 2].ev \in {"exec", "fail"}
              /\ (log[i].at = "stg_gsc_daily" /\ Len(log) > i + 1) =>
                    log[i + 2] = E("return", "build_staging_tables")
    /\ ( /\ Finished
         /\ \E g \in Range(StagingOptional) : Has("fail", g)
         /\ \A g \in Tables \cup {"cogs_update"} :
               Has("fail", g) => IsOptional(g) ) =>
            /\ exitStatus = "0"
            /\ \A st \in {"build_dimensions", "build_facts", "build_marts"} :
                  Has("start", st) /\ Has("return", st)

C5_Witness ==
    /\ Finished
    /\ exitStatus = "0"
    /\ Has("fail", "stg_meta_ads")
    /\ Has("fail", "stg_gsc_daily")
    /\ Has("return", "build_marts")

(***************************************************************************)
(* C6 as claimed: once build_staging_tables has returned, an optional       *)
(* staging table whose build failed or was skipped in this run holds no     *)
(* rows, whatever it held before.                                           *)
(***************************************************************************)
C6_OptionalLeftEmpty ==
    \A g \in Range(StagingOptional) :
        ( /\ Has("return", "build_staging_tables")
          /\ Has("caught", g) \/ Has("skip", g) ) =>
            db[g] = {}

(***************************************************************************)
(* C7 as claimed: in every committed state from the start of build_facts    *)
(* on, fact_order, fact_order_line and fact_cogs_estimate are all as they   *)
(* were when build_facts began or all fully rebuilt, and no committed       *)
(* fact_order_line row has NULL COGS columns.                               *)
(***************************************************************************)
C7_NoPartialSuccess ==
    /\ (Len(Started) > 0 /\ Started[Len(Started)] = "build_facts") =>
          \/ \A t \in CoreFactTables : db[t] = stageSnap[t]
          \/ \A t \in CoreFactTables : Rebuilt(db, t)
    /\ Has("return", "build_facts") =>
          \A t \in CoreFactTables : Rebuilt(db, t)
    /\ Has("start", "build_facts") =>
          \A x \in db["fact_order_line"] : x.cogs # "null"

(***************************************************************************)
(* C8 as claimed: after a run in which the TRUNCATE + INSERT group of a     *)
(* fact table raised, that table is left truncated: it holds no row of the  *)
(* previous build (and no mix of old and new rows).                         *)
(***************************************************************************)
C8_Original ==
    \A g \in FactTables :
        (Finished /\ Has("raise", g)) => db[g] = {}

(***************************************************************************)
(* C8 amended: after a run in which the TRUNCATE + INSERT group of a fact   *)
(* table raised, the transaction has been rolled back: every table holds    *)
(* what was committed when that group began, so the affected table holds    *)
(* no row of this run and never a mix of old and new rows.                  *)
(***************************************************************************)
C8_Amended ==
    \A g \in FactTables :
        Has("raise", g) =>
            /\ db = grpSnap
            /\ tx = db
            /\ \A x \in db[g] : x.build = "old"

C8_Witness ==
    /\ Finished
    /\ Has("raise", "fact_order_line")
    /\ db["fact_order_line"] = {Tag("old", "set")}
    /\ db["fact_order"] = {Tag("new", "na")}

(***************************************************************************)
(* SpecData: values, casts and bags                                        *)
(***************************************************************************)
\* A nullable value: NULL is the empty set, a value v is {v}.
Null == {}
Val(v) == {v}
TheVal(x) == CHOOSE v \in x : TRUE

\* COALESCE(x, y)
Coalesce(x, y) == IF x = Null THEN y ELSE x

\* NULLIF(t, u)
NullIf(t, u) == IF t = u THEN Null ELSE Val(t)

\* x + y, x - y and x * y: NULL when an operand is NULL
Plus(x, y) ==
    IF x = Null \/ y = Null THEN Null ELSE Val(TheVal(x) + TheVal(y))

Minus(x, y) ==
    IF x = Null \/ y = Null THEN Null ELSE Val(TheVal(x) - TheVal(y))

Times(x, y) ==
    IF x = Null \/ y = Null THEN Null ELSE Val(TheVal(x) * TheVal(y))

\* x::BIGINT of the ids that occur: the number the digits denote, so two
\* texts can cast to one number.  A cast of NULL is NULL.
CastBigint(x) ==
    IF x = Null THEN Null
    ELSE LET t == TheVal(x)
         IN  Val(CASE t = "1" -> 1
                   [] t = "01" -> 1
                   [] t = "2" -> 2)

\* x::NUMERIC of the amounts that occur, in cents.
CastNumeric(x) ==
    IF x = Null THEN Null
    ELSE LET t == TheVal(x)
         IN  Val(CASE t = "20.00" -> 2000
                   [] t = "10.00" -> 1000
                   [] t = "5.00" -> 500
                   [] t = "2.00" -> 200
                   [] t = "1.00" -> 100
                   [] t = "0.00" -> 0)

\* x::INTEGER of the quantities and sizes that occur.
CastInteger(x) ==
    IF x = Null THEN Null
    ELSE LET t == TheVal(x)
         IN  Val(CASE t = "1" -> 1
                   [] t = "2" -> 2
                   [] t = "3" -> 3
                   [] t = "6" -> 6)

\* x::TIMESTAMP WITH TIME ZONE of the dates that occur, as a day number.
CastTimestamp(x) ==
    IF x = Null THEN Null
    ELSE LET t == TheVal(x)
         IN  Val(CASE t = "2025-01-01" -> 1
                   [] t = "2025-01-02" -> 2)

\* LOWER(REPLACE(shipping_method, ' ', '_')) of the methods that occur.
ShippingMethodCode(m) ==
    CASE m = "Local Delivery" -> "local_delivery"
      [] m = "local delivery" -> "local_delivery"
      [] m = "Standard" -> "standard"
      [] m = "" -> ""

\* LOWER(shipping_method) LIKE '%local%'
IsLocalDelivery(m) == Lower(m) = "local delivery"

\* str.strip() of the emails that occur.
Strip(t) == IF t = " a@x.com" THEN "a@x.com" ELSE t

\* The digest of a text: one digest per text, and never the text itself.
Sha256(t) == <<"sha256", t>>

\* hash_email(email)
HashEmail(email) ==
    IF email = "" THEN Sha256("unknown") ELSE Sha256(Strip(Lower(email)))

\* As NumericDiv, with the division of integers: the quotient truncated
\* to a whole number.
NumericDivInteger(x, y) ==
    IF x = Null \/ y = Null THEN Null
    ELSE Val(10000 * (TheVal(x) \div TheVal(y)))

\* x / y on NUMERIC: the quotient is rounded to a fixed number of decimal
\* places (PostgreSQL keeps at least 16 significant digits; four places
\* are kept here, so a rounding error here is no smaller than there).
\* The result counts ten-thousandths.  A zero divisor raises division by
\* zero unless an operand is NULL.
NumericDiv(x, y) ==
    IF x = Null \/ y = Null THEN Null
    ELSE Val((2 * 10000 * TheVal(x) + TheVal(y)) \div (2 * TheVal(y)))

DivisionByZero(x, y) == x # Null /\ y # Null /\ TheVal(y) = 0

\* The position of a line item name in the ORDER BY of the window.
NameRank(n) ==
    CASE n = "Attar" -> 1
      [] n = "Bakhoor" -> 2

\* A bag is a function from row to multiplicity.
EmptyBag == <<>>

RECURSIVE SumFn(_)
SumFn(f) ==
    IF DOMAIN f = {} THEN 0
    ELSE LET x == CHOOSE x \in DOMAIN f : TRUE
         IN  f[x] + SumFn([y \in DOMAIN f \ {x} |-> f[y]])

\* SELECT f[row] FROM B, duplicates kept.
BagImage(B, f) ==
    [y \in {f[x] : x \in DOMAIN B} |->
        SumFn([x \in {z \in DOMAIN B : f[z] = y} |-> B[x]])]

BagOfSet(S, f) == BagImage([x \in S |-> 1], f)

\* The rows of a bag one by one: <<row, k>> is the k-th copy of row.
Copies(B) == UNION {{<<x, k>> : k \in 1..B[x]} : x \in DOMAIN B}

(***************************************************************************)
(* SpecData: raw.orders                                                    *)
(***************************************************************************)
MaxRawRows == 3

\* A Shopify export has one row per line item; the order-level columns are
\* filled in on the first row of an order and blank on the others.
RawIds == {"", "1", "01", "2"}
RawCreatedAt == {"2025-01-01", "2025-01-02"}
RawDetails ==
    { [subtotal |-> "20.00", discount_amount |-> "2.00",
       refunded_amount |-> "", shipping_method |-> "Local Delivery",
       lineitem_name |-> "Attar", lineitem_quantity |-> "1",
       lineitem_price |-> "10.00", lineitem_discount |-> ""],
      [subtotal |-> "", discount_amount |-> "",
       refunded_amount |-> "", shipping_method |-> "",
       lineitem_name |-> "Attar", lineitem_quantity |-> "2",
       lineitem_price |-> "5.00", lineitem_discount |-> ""],
      [subtotal |-> "5.00", discount_amount |-> "",
       refunded_amount |-> "5.00", shipping_method |-> "Standard",
       lineitem_name |-> "Bakhoor", lineitem_quantity |-> "",
       lineitem_price |-> "5.00", lineitem_discount |-> ""],
      [subtotal |-> "10.00", discount_amount |-> "",
       refunded_amount |-> "", shipping_method |-> "Standard",
       lineitem_name |-> "", lineitem_quantity |-> "",
       lineitem_price |-> "", lineitem_discount |-> ""] }

\* A row of raw.orders: id i, created_at c, email e, source s and the
\* monetary, shipping and line item columns of d.
RawOrder(i, c, e, s, d) ==
    [id |-> i, created_at |-> c, email |-> e, source |-> s,
     subtotal |-> d.subtotal,
     discount_amount |-> d.discount_amount,
     refunded_amount |-> d.refunded_amount,
     shipping_method |-> d.shipping_method,
     lineitem_name |-> d.lineitem_name,
     lineitem_quantity |-> d.lineitem_quantity,
     lineitem_price |-> d.lineitem_price,
     lineitem_discount |-> d.lineitem_discount]

RawOrderRows ==
    {RawOrder(i, c, "a@x.com", "web", d) :
        i \in RawIds, c \in RawCreatedAt, d \in RawDetails}

\* Rows of raw.customers and raw.product_sku_map.
RawCustomer(i, e) == [customer_id |-> i, email |-> e]
RawSkuRecipe(k, n, r, z) ==
    [internal_sku |-> k, lineitem_name |-> n, recipe_id |-> r, size_ml |-> z]
RawSku(k, n) == RawSkuRecipe(k, n, "", "")

(***************************************************************************)
(* SpecData: the statement groups                                          *)
(***************************************************************************)
DataGroups ==
    <<"stg_orders", "stg_order_lines", "stg_customers",
      "stg_product_sku_map", "dim_product", "dim_customer",
      "dim_shipping_method", "fact_order", "fact_order_line">>

\* The group after g, "done" after the last.
AfterGroup(g) ==
    LET i == CHOOSE j \in 1..Len(DataGroups) : DataGroups[j] = g
    IN  IF i = Len(DataGroups) THEN "done" ELSE DataGroups[i + 1]

\* The SELECT list of stg_orders.
StgOrder(r) ==
    [order_id |-> CastBigint(NullIf(r.id, "")),
     subtotal |-> CastNumeric(NullIf(r.subtotal, "")),
     discount_amount |->
         Coalesce(CastNumeric(NullIf(r.discount_amount, "")), Val(0)),
     refunded_amount |->
         Coalesce(CastNumeric(NullIf(r.refunded_amount, "")), Val(0)),
     shipping_method |-> r.shipping_method,
     email |-> r.email,
     source |-> r.source,
     created_at |-> CastTimestamp(NullIf(r.created_at, ""))]

\* WHERE id IS NOT NULL AND id != ''
OrdersWithId == {r \in DOMAIN rawOrders : r.id # ""}

\* As SortsBefore, for ORDER BY id, created_at DESC.
SortsAfter(a, b) ==
    LET x == CastTimestamp(NullIf(a.created_at, ""))
        y == CastTimestamp(NullIf(b.created_at, ""))
    IN  x # Null /\ (y = Null \/ TheVal(x) > TheVal(y))

\* ORDER BY id, created_at: created_at names the output column, the cast
\* timestamp; ascending, NULL last.
SortsBefore(a, b) ==
    LET x == CastTimestamp(NullIf(a.created_at, ""))
        y == CastTimestamp(NullIf(b.created_at, ""))
    IN  x # Null /\ (y = Null \/ TheVal(x) < TheVal(y))

\* DISTINCT ON (id) keeps the first row of each id in that order; among
\* rows that sort equal, which one comes first is not specified.
FirstOf(i) ==
    {r \in OrdersWithId :
        /\ r.id = i
        /\ \A q \in OrdersWithId : q.id = i => ~SortsBefore(q, r)}

BuildStgOrders ==
    /\ dpc = "stg_orders"
    /\ LET ids == {r.id : r \in OrdersWithId}
       IN  \E pick \in [ids -> OrdersWithId] :
               /\ \A i \in ids : pick[i] \in FirstOf(i)
               /\ stgOrders' = BagOfSet(ids, [i \in ids |-> StgOrder(pick[i])])
    /\ dpc' = AfterGroup("stg_orders")
    /\ UNCHANGED <<pass, rawOrders, rawCustomers, rawSkuMap, stgOrderLines,
                   stgCustomers, stgProductSkuMap, dimProduct, dimCustomer,
                   dimShippingMethod, factOrder, factOrderLine, seqProduct,
                   seqCustomer, seqShippingMethod, firstBuild>>
    /\ UNCHANGED <<ctlVars, cogsVars>>

\* The SELECT list of stg_order_lines.
StgOrderLine(r, n) ==
    [order_id |-> CastBigint(NullIf(r.id, "")),
     line_number |-> n,
     lineitem_name |-> r.lineitem_name,
     lineitem_quantity |->
         Coalesce(CastInteger(NullIf(r.lineitem_quantity, "")), Val(1)),
     lineitem_price |-> CastNumeric(NullIf(r.lineitem_price, "")),
     lineitem_discount |->
         Coalesce(CastNumeric(NullIf(r.lineitem_discount, "")), Val(0))]

\* WHERE id != '' AND lineitem_name != '', one element per raw row
LineItems ==
    {c \in Copies(rawOrders) : c[1].id # "" /\ c[1].lineitem_name # ""}

\* As IsRowNumbering, for ROW_NUMBER() OVER (ORDER BY lineitem_name),
\* without the partition.
IsRowNumberingOverall(ln) ==
    \A c \in LineItems :
        /\ ln[c] \in 1..Cardinality(LineItems)
        /\ \A d \in LineItems \ {c} :
               /\ ln[d] # ln[c]
               /\ NameRank(c[1].lineitem_name)
                      < NameRank(d[1].lineitem_name) => ln[c] < ln[d]

\* ROW_NUMBER() OVER (PARTITION BY id ORDER BY lineitem_name): within the
\* rows of one raw id the numbers are 1..n, ascending in the name; among
\* equal names the numbering is not specified.
IsRowNumbering(ln) ==
    \A c \in LineItems :
        LET part == {d \in LineItems : d[1].id = c[1].id}
        IN  /\ ln[c] \in 1..Cardinality(part)
            /\ \A d \in part \ {c} :
                   /\ ln[d] # ln[c]
                   /\ NameRank(c[1].lineitem_name)
                          < NameRank(d[1].lineitem_name) => ln[c] < ln[d]

BuildStgOrderLines ==
    /\ dpc = "stg_order_lines"
    /\ \E ln \in [LineItems -> 1..Cardinality(LineItems)] :
           /\ IsRowNumbering(ln)
           /\ stgOrderLines' =
                  BagOfSet(LineItems,
                           [c \in LineItems |-> StgOrderLine(c[1], ln[c])])
    /\ dpc' = AfterGroup("stg_order_lines")
    /\ UNCHANGED <<pass, rawOrders, rawCustomers, rawSkuMap, stgOrders,
                   stgCustomers, stgProductSkuMap, dimProduct, dimCustomer,
                   dimShippingMethod, factOrder, factOrderLine, seqProduct,
                   seqCustomer, seqShippingMethod, firstBuild>>
    /\ UNCHANGED <<ctlVars, cogsVars>>

\* TRUNCATE g CASCADE also empties fact table t when t references g and the
\* foreign key is declared.
Cascaded(g, t, rows) ==
    IF hasFK /\ t \in Referencing(g) THEN EmptyBag ELSE rows

\* The ways the sequence after value seq hands keys to the inserted rows:
\* the next values, in the order the SELECT happens to produce the rows.
Keyings(rows, seq) ==
    {k \in [rows -> (seq + 1)..(seq + Cardinality(rows))] :
        \A a, b \in rows : a # b => k[a] # k[b]}

\* stg_customers: every raw.customers row with a customer_id, not
\* deduplicated.
BuildStgCustomers ==
    /\ dpc = "stg_customers"
    /\ LET src == [r \in {x \in DOMAIN rawCustomers : x.customer_id # ""} |->
                      rawCustomers[r]]
       IN  stgCustomers' =
               BagImage(src, [r \in DOMAIN src |->
                   [customer_id |-> CastBigint(NullIf(r.customer_id, "")),
                    email |-> r.email]])
    /\ dpc' = AfterGroup("stg_customers")
    /\ UNCHANGED <<pass, rawOrders, rawCustomers, rawSkuMap, stgOrders,
                   stgOrderLines, stgProductSkuMap, dimProduct, dimCustomer,
                   dimShippingMethod, factOrder, factOrderLine, seqProduct,
                   seqCustomer, seqShippingMethod, firstBuild>>
    /\ UNCHANGED <<ctlVars, cogsVars>>

\* stg_product_sku_map: every raw.product_sku_map row with an internal_sku,
\* not deduplicated.
BuildStgProductSkuMap ==
    /\ dpc = "stg_product_sku_map"
    /\ LET src == [r \in {x \in DOMAIN rawSkuMap : x.internal_sku # ""} |->
                      rawSkuMap[r]]
       IN  stgProductSkuMap' =
               BagImage(src, [r \in DOMAIN src |->
                   [internal_sku |-> r.internal_sku,
                    lineitem_name |-> r.lineitem_name,
                    recipe_id |-> r.recipe_id,
                    size_ml |-> CastInteger(NullIf(r.size_ml, ""))]])
    /\ dpc' = AfterGroup("stg_product_sku_map")
    /\ UNCHANGED <<pass, rawOrders, rawCustomers, rawSkuMap, stgOrders,
                   stgOrderLines, stgCustomers, dimProduct, dimCustomer,
                   dimShippingMethod, factOrder, factOrderLine, seqProduct,
                   seqCustomer, seqShippingMethod, firstBuild>>
    /\ UNCHANGED <<ctlVars, cogsVars>>

\* dim_product: one row per stg_product_sku_map row (stg_products has one
\* row per handle, so its LEFT JOIN adds columns and no rows).
BuildDimProduct ==
    /\ dpc = "dim_product"
    /\ LET rows == Copies(stgProductSkuMap)
       IN  /\ \E k \in Keyings(rows, seqProduct) :
                  dimProduct' =
                      {[product_key |-> k[c],
                        internal_sku |-> c[1].internal_sku,
                        product_title |-> c[1].lineitem_name,
                        size_ml |-> c[1].size_ml,
                        recipe_id |-> c[1].recipe_id] : c \in rows}
           /\ seqProduct' = seqProduct + Cardinality(rows)
    /\ factOrderLine' = Cascaded("dim_product", "fact_order_line", factOrderLine)
    /\ dpc' = AfterGroup("dim_product")
    /\ UNCHANGED <<pass, rawOrders, rawCustomers, rawSkuMap, stgOrders,
                   stgOrderLines, stgCustomers, stgProductSkuMap,
                   dimCustomer, dimShippingMethod, factOrder, seqCustomer,
                   seqShippingMethod, firstBuild>>
    /\ UNCHANGED <<ctlVars, cogsVars>>

\* As TotalOrders, counted in the customer export instead of the orders.
TotalOrdersExported(email) ==
    Cardinality({c.customer_id :
                    c \in {x \in DOMAIN stgCustomers : x.email = email}})

\* customer_stats: COUNT(DISTINCT order_id) of the stg_orders rows of one
\* email, the email compared as it is written.
TotalOrders(email) ==
    Cardinality({o.order_id : o \in {x \in DOMAIN stgOrders : x.email = email}})

\* CASE ... END AS customer_segment
CustomerSegment(n) ==
    CASE n = 0 -> "prospect"
      [] n = 1 -> "new"
      [] n >= 2 -> "returning"
      [] OTHER -> "unknown"

\* order_customers LEFT JOIN stg_customers LEFT JOIN customer_stats, both
\* ON LOWER(email): <<e, c, s>> for order email e, the stg_customers row c
\* joined to it (NULL when none) and the customer_stats email s.
CustomerRows ==
    LET emails == {o.email : o \in DOMAIN stgOrders}
    IN  {<<e, c, st>> \in
            (emails \ {""})
                \X ({Null} \cup {Val(x) : x \in Copies(stgCustomers)})
                \X emails :
            /\ Lower(e) = Lower(st)
            /\ IF c = Null
                   THEN \A x \in DOMAIN stgCustomers :
                            Lower(x.email) # Lower(e)
                   ELSE Lower(TheVal(c)[1].email) = Lower(e)}

BuildDimCustomer ==
    /\ dpc = "dim_customer"
    /\ LET rows == CustomerRows
       IN  /\ \E k \in Keyings(rows, seqCustomer) :
                  dimCustomer' =
                      {[customer_key |-> k[r],
                        customer_id_hash |-> Sha256(Lower(r[1])),
                        customer_id |->
                            IF r[2] = Null THEN Null
                            ELSE TheVal(r[2])[1].customer_id,
                        total_orders |-> TotalOrders(r[3]),
                        customer_segment |->
                            CustomerSegment(TotalOrders(r[3]))] : r \in rows}
           /\ seqCustomer' = seqCustomer + Cardinality(rows)
    /\ factOrder' = Cascaded("dim_customer", "fact_order", factOrder)
    /\ factOrderLine' = Cascaded("dim_customer", "fact_order_line", factOrderLine)
    /\ dpc' = AfterGroup("dim_customer")
    /\ UNCHANGED <<pass, rawOrders, rawCustomers, rawSkuMap, stgOrders,
                   stgOrderLines, stgCustomers, stgProductSkuMap, dimProduct,
                   dimShippingMethod, seqProduct, seqShippingMethod,
                   firstBuild>>
    /\ UNCHANGED <<ctlVars, cogsVars>>

\* As ShippingMethodRows, without the UNION branch.
ShippingMethodRowsNoFallback ==
    {[shipping_method_code |-> ShippingMethodCode(m),
      shipping_method_name |-> m,
      is_local_delivery |-> IsLocalDelivery(m)] :
         m \in {o.shipping_method : o \in DOMAIN stgOrders} \ {""}}

\* SELECT DISTINCT code, name, is_local FROM stg_orders WHERE the method is
\* not blank, UNION the 'unknown' row when no order has a method.
ShippingMethodRows ==
    LET methods == {o.shipping_method : o \in DOMAIN stgOrders} \ {""}
    IN  {[shipping_method_code |-> ShippingMethodCode(m),
          shipping_method_name |-> m,
          is_local_delivery |-> IsLocalDelivery(m)] : m \in methods}
        \cup
        (IF methods = {}
            THEN {[shipping_method_code |-> "unknown",
                   shipping_method_name |-> "Unknown",
                   is_local_delivery |-> FALSE]}
            ELSE {})

\* The INSERT leaves shipping_method_key to its sequence: the rows get the
\* next values, in the order the SELECT happens to produce them.  TRUNCATE
\* does not restart the sequence; CASCADE empties fact_order with the
\* dimension when the foreign key is declared.
BuildDimShippingMethod ==
    /\ dpc = "dim_shipping_method"
    /\ LET rows == ShippingMethodRows
           n == Cardinality(rows)
           keys == (seqShippingMethod + 1)..(seqShippingMethod + n)
       IN  /\ \E k \in [rows -> keys] :
                  /\ \A a, b \in rows : a # b => k[a] # k[b]
                  /\ dimShippingMethod' =
                         {[shipping_method_key |-> k[r],
                           shipping_method_code |-> r.shipping_method_code,
                           shipping_method_name |-> r.shipping_method_name,
                           is_local_delivery |-> r.is_local_delivery] :
                              r \in rows}
           /\ seqShippingMethod' = seqShippingMethod + n
    /\ factOrder' = Cascaded("dim_shipping_method", "fact_order", factOrder)
    /\ factOrderLine' =
           Cascaded("dim_shipping_method", "fact_order_line", factOrderLine)
    /\ dpc' = AfterGroup("dim_shipping_method")
    /\ UNCHANGED <<pass, rawOrders, rawCustomers, rawSkuMap, stgOrders,
                   stgOrderLines, stgCustomers, stgProductSkuMap, dimProduct,
                   dimCustomer, seqProduct, seqCustomer, firstBuild>>
    /\ UNCHANGED <<ctlVars, cogsVars>>

\* order_line_summary: the aggregates of the lines of one order_id, NULL
\* (no row to join) when the order has no line.
LinesOf(id) ==
    [l \in {x \in DOMAIN stgOrderLines : x.order_id = id} |->
        stgOrderLines[l]]

OrderLineSummary(id) ==
    LET lines == LinesOf(id)
        priced == {l \in DOMAIN lines : l.lineitem_price # Null}
    IN  IF DOMAIN lines = {} THEN Null
        ELSE Val([unit_count |->
                      SumFn([l \in DOMAIN lines |->
                          TheVal(l.lineitem_quantity) * lines[l]]),
                  line_item_count |-> SumFn(lines),
                  calculated_gross |->
                      IF priced = {} THEN Null
                      ELSE Val(SumFn([l \in priced |->
                               TheVal(l.lineitem_price)
                                   * TheVal(l.lineitem_quantity)
                                   * lines[l]]))])

\* warehouse.dim_channel as the schema seeds it: one row per channel code,
\* the fixed 'web' channel among them.
DimChannel ==
    {[channel_key |-> 1, channel_code |-> "web"],
     [channel_key |-> 2, channel_code |-> "pos"]}

\* (SELECT channel_key FROM dim_channel WHERE channel_code = 'web')
WebChannel ==
    LET m == {d \in DimChannel : d.channel_code = "web"}
    IN  IF m = {} THEN Null ELSE Val((CHOOSE d \in m : TRUE).channel_key)

\* The SELECT list of fact_order for order o joined to the dimension rows
\* with keys dc, ch and sm (NULL when none matched); fb is the fallback
\* shipping method key.
FactOrder(o, dc, ch, sm, fb) ==
    LET ols == OrderLineSummary(o.order_id)
    IN  [order_id |-> o.order_id,
         customer_key |-> dc,
         channel_key |-> Coalesce(ch, WebChannel),
         shipping_method_key |-> Coalesce(sm, fb),
         gross_product_sales |->
             Coalesce(IF ols = Null THEN Null
                                    ELSE TheVal(ols).calculated_gross,
                      Plus(o.subtotal, o.discount_amount)),
         order_discount_amount |-> o.discount_amount,
         subtotal |-> o.subtotal,
         refunded_amount |-> o.refunded_amount,
         net_sales |-> Minus(o.subtotal, o.refunded_amount),
         line_item_count |->
             IF ols = Null THEN 1 ELSE TheVal(ols).line_item_count,
         unit_count |->
             IF ols = Null THEN 1 ELSE TheVal(ols).unit_count]

\* LEFT JOIN dim_shipping_method sm ON code of the order's method =
\* sm.shipping_method_code: one joined row per matching dimension row, one
\* with a NULL key when none matches.
JoinShippingMethod(o) ==
    LET m == {d \in dimShippingMethod :
                 d.shipping_method_code
                     = ShippingMethodCode(o.shipping_method)}
    IN  IF m = {} THEN {Null} ELSE {Val(d.shipping_method_key) : d \in m}

\* LEFT JOIN dim_customer dc ON sha256(LOWER(o.email)) = dc.customer_id_hash
JoinCustomer(o) ==
    LET m == {d \in dimCustomer : d.customer_id_hash = Sha256(Lower(o.email))}
    IN  IF m = {} THEN {Null} ELSE {Val(d.customer_key) : d \in m}

\* LEFT JOIN dim_channel ch ON LOWER(o.source) = ch.channel_code
JoinChannel(o) ==
    LET m == {d \in DimChannel : d.channel_code = Lower(o.source)}
    IN  IF m = {} THEN {Null} ELSE {Val(d.channel_key) : d \in m}

\* As LimitOne, with the subquery finding no row.
LimitNone == {Null}

\* (SELECT shipping_method_key FROM dim_shipping_method LIMIT 1): the key
\* of whichever row the scan returns first, NULL on an empty table.
LimitOne ==
    IF dimShippingMethod = {} THEN {Null}
    ELSE {Val(d.shipping_method_key) : d \in dimShippingMethod}

BuildFactOrder ==
    /\ dpc = "fact_order"
    /\ LET joined == UNION {{o} \X JoinCustomer(o) \X JoinChannel(o)
                                   \X JoinShippingMethod(o) :
                               o \in DOMAIN stgOrders}
       IN  \E fb \in LimitOne :
               factOrder' =
                   BagImage([j \in joined |-> stgOrders[j[1]]],
                            [j \in joined |->
                                FactOrder(j[1], j[2], j[3], j[4], fb)])
    /\ factOrderLine' = Cascaded("fact_order", "fact_order_line", factOrderLine)
    /\ dpc' = AfterGroup("fact_order")
    /\ UNCHANGED <<pass, rawOrders, rawCustomers, rawSkuMap, stgOrders,
                   stgOrderLines, stgCustomers, stgProductSkuMap, dimProduct,
                   dimCustomer, dimShippingMethod, seqProduct, seqCustomer,
                   seqShippingMethod, firstBuild>>
    /\ UNCHANGED <<ctlVars, cogsVars>>

\* As HasGross, with WHEN fo.gross_product_sales >= 0.
HasGrossOrZero(gross) == gross # Null /\ TheVal(gross) >= 0

\* WHEN fo.gross_product_sales > 0
HasGross(gross) == gross # Null /\ TheVal(gross) > 0

\* line_with_allocation and the SELECT list of fact_order_line for the
\* stg_order_lines row ol joined to the fact_order row fo and to the
\* product key dp (NULL when none matched).  allocated_order_discount and
\* net_line_revenue count ten-thousandths of a cent, the others cents.
FactOrderLine(ol, fo, dp) ==
    LET glr == Times(ol.lineitem_price, ol.lineitem_quantity)
        alloc == IF HasGross(fo.gross_product_sales)
                     THEN Times(NumericDiv(glr, fo.gross_product_sales),
                                fo.order_discount_amount)
                     ELSE Val(0)
    IN  [order_id |-> ol.order_id,
         line_number |-> ol.line_number,
         product_key |-> dp,
         quantity |-> ol.lineitem_quantity,
         unit_price |-> ol.lineitem_price,
         gross_line_revenue |-> glr,
         line_discount |-> ol.lineitem_discount,
         allocated_order_discount |-> alloc,
         net_line_revenue |->
             Minus(Times(Minus(glr, ol.lineitem_discount), Val(10000)),
                   alloc)]

\* LEFT JOIN stg_product_sku_map skm ON the line item name, LEFT JOIN
\* dim_product dp ON skm.internal_sku = dp.internal_sku: one product key
\* per pair of matching rows, NULL for a map row without product and for a
\* line without map row.
JoinProduct(ol) ==
    LET skm == {c \in Copies(stgProductSkuMap) :
                   c[1].lineitem_name = ol.lineitem_name}
        dps(c) == {d \in dimProduct : d.internal_sku = c[1].internal_sku}
    IN  IF skm = {} THEN {<<Null, Null>>}
        ELSE UNION {IF dps(c) = {} THEN {<<c, Null>>}
                    ELSE {<<c, Val(d.product_key)>> : d \in dps(c)} :
                       c \in skm}

\* stg_order_lines JOIN fact_order ON order_id, then the two LEFT JOINs.
\* A division by zero fails the statement: the transaction is rolled back
\* and build_facts raises.
BuildFactOrderLine ==
    /\ dpc = "fact_order_line"
    /\ LET joined == UNION {{ol} \X {fo \in Copies(factOrder) :
                                        fo[1].order_id = ol[1].order_id}
                                 \X JoinProduct(ol[1]) :
                               ol \in Copies(stgOrderLines)}
       IN  IF \E j \in joined :
                 /\ HasGross(j[2][1].gross_product_sales)
                 /\ DivisionByZero(Times(j[1][1].lineitem_price,
                                         j[1][1].lineitem_quantity),
                                   j[2][1].gross_product_sales)
           THEN /\ dpc' = "failed"
                /\ UNCHANGED factOrderLine
           ELSE /\ dpc' = AfterGroup("fact_order_line")
                /\ factOrderLine' =
                       BagOfSet(joined,
                                [j \in joined |->
                                    FactOrderLine(j[1][1], j[2][1], j[3][2])])
    /\ UNCHANGED <<pass, rawOrders, rawCustomers, rawSkuMap, stgOrders,
                   stgOrderLines, stgCustomers, stgProductSkuMap, dimProduct,
                   dimCustomer, dimShippingMethod, factOrder, seqProduct,
                   seqCustomer, seqShippingMethod, firstBuild>>
    /\ UNCHANGED <<ctlVars, cogsVars>>

\* The rows of the four tables with the generated keys read through: a
\* dimension row without its key, a fact row with the code its key refers
\* to.
CodeOfKey(k) ==
    IF k = Null THEN Null
    ELSE {d.shipping_method_code :
             d \in {x \in dimShippingMethod :
                       x.shipping_method_key = TheVal(k)}}

Content ==
    [stg_orders |-> stgOrders,
     stg_order_lines |-> stgOrderLines,
     dim_shipping_method |->
         {[shipping_method_code |-> d.shipping_method_code,
           shipping_method_name |-> d.shipping_method_name,
           is_local_delivery |-> d.is_local_delivery] :
              d \in dimShippingMethod},
     fact_order |->
         BagImage(factOrder,
                  [f \in DOMAIN factOrder |->
                      [f EXCEPT !.shipping_method_key = CodeOfKey(@),
                                !.customer_key =
                                    {d.customer_id_hash :
                                        d \in {x \in dimCustomer :
                                            Val(x.customer_key) = @}}]])]

\* The pipeline is run again on the same raw data.
Rerun ==
    /\ dpc = "done"
    /\ pass = 1
    /\ pass' = 2
    /\ firstBuild' = Content
    /\ dpc' = DataGroups[1]
    /\ UNCHANGED <<rawOrders, rawCustomers, rawSkuMap, stgOrders,
                   stgOrderLines, stgCustomers, stgProductSkuMap, dimProduct,
                   dimCustomer, dimShippingMethod, factOrder, factOrderLine,
                   seqProduct, seqCustomer, seqShippingMethod>>
    /\ UNCHANGED <<ctlVars, cogsVars>>

\* raw.orders as load_csv_to_table leaves it: at least one row (an empty
\* file is not loaded), every column text, a blank cell the empty string.
NothingBuilt ==
    /\ dpc = DataGroups[1]
    /\ pass = 1
    /\ stgOrders = EmptyBag
    /\ stgOrderLines = EmptyBag
    /\ stgCustomers = EmptyBag
    /\ stgProductSkuMap = EmptyBag
    /\ dimProduct = {}
    /\ dimCustomer = {}
    /\ dimShippingMethod = {}
    /\ factOrder = EmptyBag
    /\ factOrderLine = EmptyBag
    /\ seqProduct = 0
    /\ seqCustomer = 0
    /\ seqShippingMethod = 0
    /\ firstBuild = <<>>

InitData ==
    /\ CtlInit
    /\ NothingBuilt
    /\ CogsOff
    /\ \E n \in 1..MaxRawRows :
           \E f \in [1..n -> RawOrderRows] :
               rawOrders = BagOfSet(1..n, f)
    /\ rawCustomers = BagOfSet({1}, <<RawCustomer("1", "a@x.com")>>)
    /\ rawSkuMap = BagOfSet({1}, <<RawSku("ATT-3", "Attar")>>)

\* One build of the staging, dimension and fact tables, group by group.
NextBuild ==
    \/ BuildStgOrders
    \/ BuildStgOrderLines
    \/ BuildStgCustomers
    \/ BuildStgProductSkuMap
    \/ BuildDimProduct
    \/ BuildDimCustomer
    \/ BuildDimShippingMethod
    \/ BuildFactOrder
    \/ BuildFactOrderLine

NextData ==
    \/ NextBuild
    \/ Rerun

SpecData == InitData /\ [][NextData]_vars

\* stg_orders has been built from the current raw.orders.
StgOrdersBuilt == dpc # "off" /\ ~(pass = 1 /\ dpc = "stg_orders")

\* Both builds are complete.
Rebuilt2 == pass = 2 /\ dpc = "done"

(***************************************************************************)
(* C9: running the staging, dimension and fact builds a second time on     *)
(* unchanged raw data leaves every table with the rows the first run left: *)
(* no added row, no lost row, and no different choice among duplicate raw   *)
(* order rows, equally named lines or the fallback shipping method.        *)
(* Generated key values are read through, so a key that merely changed its *)
(* number does not count as a difference.                                  *)
(***************************************************************************)
C9_Idempotent == Rebuilt2 => Content = firstBuild

(***************************************************************************)
(* C10: whatever raw.orders holds, once stg_orders is built no two of its   *)
(* rows have the same order_id, and every nonblank raw id is represented   *)
(* by exactly one row.                                                     *)
(***************************************************************************)
C10_OrderIdUnique ==
    StgOrdersBuilt =>
        /\ \A o \in DOMAIN stgOrders :
               SumFn([x \in {y \in DOMAIN stgOrders :
                                y.order_id = o.order_id} |-> stgOrders[x]])
                   = 1
        /\ \A r \in OrdersWithId :
               \E o \in DOMAIN stgOrders :
                   /\ o.order_id = CastBigint(NullIf(r.id, ""))
                   /\ stgOrders[o] = 1

(***************************************************************************)
(* SpecDims: orders that differ in email, source and shipping method, and  *)
(* a customer export, built once.                                          *)
(***************************************************************************)
MaxDimOrders == 2

DimOrderRows ==
    {RawOrder(i, "2025-01-01", e, src,
              [subtotal |-> "20.00", discount_amount |-> "2.00",
               refunded_amount |-> "", shipping_method |-> m,
               lineitem_name |-> "Attar", lineitem_quantity |-> "1",
               lineitem_price |-> "10.00", lineitem_discount |-> ""]) :
        i \in {"", "1", "2"},
        e \in {"", "a@x.com", "A@x.com", " a@x.com"},
        src \in {"web", "shopify_draft_order"},
        m \in {"", "Local Delivery", "local delivery"}}

\* Contents of raw.customers: one customer who also orders; a row without
\* customer_id beside a customer who never orders.
DimCustomerTables ==
    {BagOfSet(1..Len(t), t) :
        t \in {<<RawCustomer("1", "a@x.com")>>,
               <<RawCustomer("", "a@x.com"), RawCustomer("2", "b@y.com")>>}}

InitDims ==
    /\ CtlInit
    /\ hasFK
    /\ NothingBuilt
    /\ CogsOff
    /\ \E n \in 1..MaxDimOrders :
           \E f \in [1..n -> DimOrderRows] :
               rawOrders = BagOfSet(1..n, f)
    /\ rawCustomers \in DimCustomerTables
    /\ rawSkuMap = BagOfSet({1}, <<RawSku("ATT-3", "Attar")>>)

SpecDims == InitDims /\ [][NextBuild]_vars

\* build_dimensions has run on the current staging tables.
DimsBuilt == dpc \in {"fact_order", "fact_order_line", "done", "failed"}

\* build_facts has built fact_order from the current dimensions.
FactOrderBuilt == dpc \in {"fact_order_line", "done", "failed"}

\* The number of fact_order rows of order_id id.
FactRowsOf(id) ==
    SumFn([f \in {x \in DOMAIN factOrder : x.order_id = id} |-> factOrder[f]])

(***************************************************************************)
(* C11: after build_dimensions and build_facts, fact_order has exactly one *)
(* row per stg_orders row, and so no order_id twice, also when order       *)
(* emails or shipping method names differ only in letter case.             *)
(***************************************************************************)
C11_OneFactRowPerOrder ==
    FactOrderBuilt =>
        /\ \A o \in DOMAIN stgOrders : FactRowsOf(o.order_id) = 1
        /\ SumFn(factOrder) = SumFn(stgOrders)

(***************************************************************************)
(* C13: after build_dimensions, dim_shipping_method is not empty, and it   *)
(* holds the 'unknown' fallback row exactly when no stg_orders row has a   *)
(* shipping method that is neither NULL nor empty; stg_orders may be empty. *)
(***************************************************************************)
C13_ShippingMethodFallback ==
    DimsBuilt =>
        /\ dimShippingMethod # {}
        /\ (\E d \in dimShippingMethod :
                /\ d.shipping_method_code = "unknown"
                /\ d.shipping_method_name = "Unknown"
                /\ ~d.is_local_delivery)
           <=> (\A o \in DOMAIN stgOrders : o.shipping_method = "")

C13_Witness ==
    /\ DimsBuilt
    /\ stgOrders = EmptyBag
    /\ \E d \in dimShippingMethod : d.shipping_method_code = "unknown"

(***************************************************************************)
(* C14: after build_dimensions and build_facts, every fact_order row has a *)
(* channel_key and a shipping_method_key that are not NULL and are keys of *)
(* rows of dim_channel and dim_shipping_method, also when the order's      *)
(* source matches no channel code or its shipping method is blank.         *)
(***************************************************************************)
C14_KeysResolve ==
    FactOrderBuilt =>
        \A f \in DOMAIN factOrder :
            /\ f.channel_key # Null
            /\ \E d \in DimChannel : Val(d.channel_key) = f.channel_key
            /\ f.shipping_method_key # Null
            /\ \E d \in dimShippingMethod :
                   Val(d.shipping_method_key) = f.shipping_method_key

C14_Witness ==
    /\ FactOrderBuilt
    /\ \E o \in DOMAIN stgOrders :
           /\ o.source = "shopify_draft_order"
           /\ o.shipping_method = ""
           /\ FactRowsOf(o.order_id) >= 1
    /\ \E d \in dimShippingMethod : d.shipping_method_code = "local_delivery"

(***************************************************************************)
(* C15: after build_dimensions and build_facts, every fact_order row of an *)
(* order with a non-empty email has a customer_key that is not NULL and is *)
(* the key of a dim_customer row whose customer_id_hash is the identity    *)
(* hash (hash_email) of the order's email.                                 *)
(***************************************************************************)
C15_CustomerKeyResolves ==
    FactOrderBuilt =>
        \A f \in DOMAIN factOrder :
            \A o \in {x \in DOMAIN stgOrders :
                         x.order_id = f.order_id /\ x.email # ""} :
                /\ f.customer_key # Null
                /\ \E d \in dimCustomer :
                       /\ Val(d.customer_key) = f.customer_key
                       /\ d.customer_id_hash = HashEmail(o.email)

(***************************************************************************)
(* C16: after build_dimensions, dim_customer has exactly one row per       *)
(* distinct normalized (lower-cased, trimmed) non-empty order email: no    *)
(* two rows share a customer_id_hash, and the hashes are those of the      *)
(* normalized order emails.                                                *)
(***************************************************************************)
C16_OneCustomerPerEmail ==
    DimsBuilt =>
        /\ \A a, b \in dimCustomer :
               a # b => a.customer_id_hash # b.customer_id_hash
        /\ {d.customer_id_hash : d \in dimCustomer}
               = {HashEmail(o.email) :
                     o \in {x \in DOMAIN stgOrders : x.email # ""}}

(***************************************************************************)
(* C17: for every dim_customer row, total_orders is the number of distinct *)
(* stg_orders order ids whose normalized email is that customer's, and     *)
(* customer_segment is 'prospect' for 0, 'new' for 1, 'returning' for 2 or *)
(* more.                                                                   *)
(***************************************************************************)
C17_TotalOrdersAndSegment ==
    DimsBuilt =>
        \A d \in dimCustomer :
            LET n == Cardinality(
                         {o.order_id :
                             o \in {x \in DOMAIN stgOrders :
                                 /\ x.email # ""
                                 /\ Strip(Lower(x.email))
                                        = Strip(d.customer_id_hash[2])}})
            IN  /\ d.total_orders = n
                /\ d.customer_segment =
                       (IF n = 0 THEN "prospect"
                        ELSE IF n = 1 THEN "new" ELSE "returning")

(***************************************************************************)
(* SpecLines: orders of several line items, with and without prices and    *)
(* discounts, and SKU maps with repeated names and SKUs, built once.       *)
(***************************************************************************)
MaxLineRows == 3

\* Export rows of non-negative amounts: the first row of an order carries
\* the order's subtotal and discount, a further row only the line item; the
\* last one is an order row without line item.
LineDetails ==
    { [subtotal |-> "20.00", discount_amount |-> "2.00",
       refunded_amount |-> "", shipping_method |-> "Standard",
       lineitem_name |-> "Attar", lineitem_quantity |-> "1",
       lineitem_price |-> "10.00", lineitem_discount |-> ""],
      [subtotal |-> "", discount_amount |-> "",
       refunded_amount |-> "", shipping_method |-> "",
       lineitem_name |-> "Bakhoor", lineitem_quantity |-> "1",
       lineitem_price |-> "10.00", lineitem_discount |-> ""],
      [subtotal |-> "", discount_amount |-> "2.00",
       refunded_amount |-> "", shipping_method |-> "Standard",
       lineitem_name |-> "Attar", lineitem_quantity |-> "2",
       lineitem_price |-> "0.00", lineitem_discount |-> ""],
      [subtotal |-> "5.00", discount_amount |-> "",
       refunded_amount |-> "", shipping_method |-> "Standard",
       lineitem_name |-> "Bakhoor", lineitem_quantity |-> "",
       lineitem_price |-> "", lineitem_discount |-> "1.00"],
      [subtotal |-> "20.00", discount_amount |-> "2.00",
       refunded_amount |-> "", shipping_method |-> "Standard",
       lineitem_name |-> "Bakhoor", lineitem_quantity |-> "2",
       lineitem_price |-> "5.00", lineitem_discount |-> "1.00"],
      [subtotal |-> "10.00", discount_amount |-> "",
       refunded_amount |-> "", shipping_method |-> "Standard",
       lineitem_name |-> "", lineitem_quantity |-> "",
       lineitem_price |-> "", lineitem_discount |-> ""] }

LineOrderRows ==
    {RawOrder(i, "2025-01-01", "a@x.com", "web", d) :
        i \in {"1", "2"}, d \in LineDetails}

\* Contents of raw.product_sku_map: one row; two rows of one lineitem_name;
\* two rows of one internal_sku; a row without internal_sku beside another.
LineSkuMaps ==
    {BagOfSet(1..Len(t), t) :
        t \in {<<RawSku("ATT-3", "Attar")>>,
               <<RawSku("ATT-3", "Attar"), RawSku("ATT-6", "Attar")>>,
               <<RawSku("ATT-3", "Attar"), RawSku("ATT-3", "Bakhoor")>>,
               <<RawSku("", "Attar"), RawSku("BKH-1", "Bakhoor")>>}}

InitLines ==
    /\ CtlInit
    /\ hasFK
    /\ NothingBuilt
    /\ CogsOff
    /\ \E n \in 1..MaxLineRows :
           \E f \in [1..n -> LineOrderRows] :
               rawOrders = BagOfSet(1..n, f)
    /\ rawCustomers = BagOfSet({1}, <<RawCustomer("1", "a@x.com")>>)
    /\ rawSkuMap \in LineSkuMaps

SpecLines == InitLines /\ [][NextBuild]_vars

\* build_facts has built fact_order and fact_order_line.
FactsBuilt == dpc = "done"

\* The number of rows of the bag of lines B with the key of line l.
LinesWithKey(B, l) ==
    SumFn([x \in {y \in DOMAIN B : /\ y.order_id = l.order_id
                                   /\ y.line_number = l.line_number} |->
              B[x]])

\* SUM(gross_line_revenue) over the fact_order_line rows of order_id id:
\* NULL values are skipped, and the sum of none is NULL.
LineGross(id) ==
    LET rows == {x \in DOMAIN factOrderLine :
                    x.order_id = id /\ x.gross_line_revenue # Null}
    IN  IF rows = {} THEN Null
        ELSE Val(SumFn([x \in rows |->
                 TheVal(x.gross_line_revenue) * factOrderLine[x]]))

\* |a - b| <= t
Within(a, b, t) == a - b <= t /\ b - a <= t

(***************************************************************************)
(* C12: after a build, no (order_id, line_number) occurs twice in          *)
(* stg_order_lines or in fact_order_line, and fact_order_line has exactly  *)
(* one row for each stg_order_lines row, whatever the SKU map holds.       *)
(***************************************************************************)
C12_OneFactLinePerLine ==
    FactsBuilt =>
        /\ \A l \in DOMAIN stgOrderLines : LinesWithKey(stgOrderLines, l) = 1
        /\ \A l \in DOMAIN factOrderLine : LinesWithKey(factOrderLine, l) = 1
        /\ \A l \in DOMAIN stgOrderLines : LinesWithKey(factOrderLine, l) = 1
        /\ SumFn(factOrderLine) = SumFn(stgOrderLines)

(***************************************************************************)
(* C18: building fact_order_line never raises a division by zero, and      *)
(* every line of an order whose gross_product_sales is 0 has               *)
(* allocated_order_discount 0, whatever the order's discount.              *)
(***************************************************************************)
C18_ZeroGrossAllocatesNothing ==
    /\ dpc # "failed"
    /\ FactsBuilt =>
           \A fo \in DOMAIN factOrder :
               fo.gross_product_sales = Val(0) =>
                   \A fl \in DOMAIN factOrderLine :
                       fl.order_id = fo.order_id =>
                           fl.allocated_order_discount = Val(0)

\* An order of gross 0 and discount 2.00 has been built with its lines.
C18_Witness ==
    /\ FactsBuilt
    /\ \E fo \in DOMAIN factOrder :
           /\ fo.gross_product_sales = Val(0)
           /\ fo.order_discount_amount = Val(200)
           /\ \E fl \in DOMAIN factOrderLine :
                  /\ fl.order_id = fo.order_id
                  /\ fl.allocated_order_discount = Val(0)

C20_LineRevenueSumsToOrder ==
    FactsBuilt =>
        \A fo \in DOMAIN factOrder :
            LineGross(fo.order_id) # Null /\ fo.gross_product_sales # Null =>
                Within(TheVal(LineGross(fo.order_id)),
                       TheVal(fo.gross_product_sales), 1)

(***************************************************************************)
(* C26: fact_order.gross_product_sales is the sum of unit price x quantity *)
(* over the order's stg_order_lines rows whenever the order has such a     *)
(* row, and subtotal + discount_amount only for an order without any.      *)
(***************************************************************************)
C26_GrossFromLines ==
    FactOrderBuilt =>
        \A fo \in DOMAIN factOrder :
            LET lines == LinesOf(fo.order_id)
                priced == {l \in DOMAIN lines : l.lineitem_price # Null}
            IN  fo.gross_product_sales =
                    IF DOMAIN lines = {}
                        THEN Plus(fo.subtotal, fo.order_discount_amount)
                    ELSE IF priced = {} THEN Null
                    ELSE Val(SumFn([l \in priced |->
                             TheVal(l.lineitem_price)
                                 * TheVal(l.lineitem_quantity) * lines[l]]))

(***************************************************************************)
(* C27: when raw.orders has several rows of one id, stg_orders keeps one   *)
(* row for the id, with the field values of a raw row that no other row of *)
(* the id precedes in creation time.                                       *)
(***************************************************************************)
C27_EarliestKept ==
    StgOrdersBuilt =>
        LET rows == {r \in DOMAIN rawOrders : r.id # ""}
            ids == {r.id : r \in rows}
            at(r) == CastTimestamp(NullIf(r.created_at, ""))
            earliest(r) ==
                \A q \in rows :
                    q.id = r.id /\ at(q) # Null =>
                        at(r) # Null /\ TheVal(at(r)) <= TheVal(at(q))
        IN  \E keep \in [ids -> rows] :
                /\ \A i \in ids : keep[i].id = i /\ earliest(keep[i])
                /\ stgOrders = BagOfSet(ids, [i \in ids |-> StgOrder(keep[i])])

\* Two raw rows of one id differ in creation time and in their values, and
\* stg_orders holds the values of the earlier one.
C27_Witness ==
    /\ StgOrdersBuilt
    /\ \E r, q \in DOMAIN rawOrders :
           /\ r.id = q.id
           /\ r.id # ""
           /\ r.created_at = "2025-01-01"
           /\ q.created_at = "2025-01-02"
           /\ StgOrder(r).subtotal # StgOrder(q).subtotal
           /\ StgOrder(r) \in DOMAIN stgOrders

(***************************************************************************)
(* C28: in stg_order_lines the line numbers of an order are 1..n, each     *)
(* once, n being the number of raw rows of the order with an item name,    *)
(* and a line whose name sorts strictly before another's of the same order *)
(* has the smaller number.                                                 *)
(***************************************************************************)
StgLinesBuilt == dpc \notin {"stg_orders", "stg_order_lines"}

C29_DiscountConserved ==
    FactsBuilt =>
        \A fo \in DOMAIN factOrder :
            LET lines == LinesOf(fo.order_id)
                flines == {x \in DOMAIN factOrderLine :
                              x.order_id = fo.order_id}
            IN  ( /\ HasGross(fo.gross_product_sales)
                  /\ DOMAIN lines # {}
                  /\ \A l \in DOMAIN lines : l.lineitem_price # Null ) =>
                    Within(SumFn([x \in flines |->
                               TheVal(x.allocated_order_discount)
                                   * factOrderLine[x]]),
                           10000 * TheVal(fo.order_discount_amount),
                           10000)

(***************************************************************************)
(* C30: after build_dimensions every dim_customer row has total_orders of  *)
(* at least 1 and the segment 'new' or 'returning', never 'prospect' or    *)
(* 'unknown'.                                                              *)
(***************************************************************************)
C30_NoProspect ==
    DimsBuilt =>
        \A d \in dimCustomer :
            /\ d.total_orders >= 1
            /\ d.customer_segment \in {"new", "returning"}

\* dim_customer holds a customer of one order and, in another build, a
\* customer of two, one of them absent from the customer export.
C30_Witness ==
    /\ DimsBuilt
    /\ \E d \in dimCustomer :
           /\ d.customer_id = Null
           /\ d.total_orders = 2
           /\ d.customer_segment = "returning"

(***************************************************************************)
(* SpecCogs: material costs, recipes and the two-stage cost rollup.  The   *)
(* statement groups of materials and recipes read and write no table of    *)
(* the order groups before fact_cogs_estimate, so they are run after them. *)
(* Amounts count hundredths of a millilitre, costs per millilitre and per  *)
(* unit cents, line_cost and estimated_cogs hundredths of a cent, and      *)
(* margin_percent tenths of a percent.  A fact_order_line row is           *)
(* identified by its copy in the bag, which stands for its order_line_key. *)
(***************************************************************************)
\* Rows of raw.material_costs and raw.recipes.
RawMaterial(m, k, ml, u) ==
    [material_id |-> m, has_known_cost |-> k, cost_per_ml |-> ml,
     cost_per_unit |-> u]

RawRecipe(r, v, b, g, a, m) ==
    [recipe_id |-> r, variant |-> v, batch_size_ml |-> b,
     ingredient_match |-> g, amount_ml |-> a, material_id |-> m]

\* UPPER(t) = 'TRUE' of the flags that occur.
IsTrueText(t) == t \in {"TRUE", "true", "True"}

BuildStgMaterialCosts ==
    /\ dpc = "done"
    /\ cpc = "stg_material_costs"
    /\ LET src == [r \in {x \in DOMAIN rawMaterialCosts :
                             x.material_id # ""} |-> rawMaterialCosts[r]]
       IN  stgMaterialCosts' =
               BagImage(src, [r \in DOMAIN src |->
                   [material_id |-> r.material_id,
                    cost_per_unit |-> CastNumeric(NullIf(r.cost_per_unit, "")),
                    cost_per_ml |-> CastNumeric(NullIf(r.cost_per_ml, "")),
                    has_known_cost |-> IsTrueText(r.has_known_cost)]])
    /\ cpc' = "stg_recipes"
    /\ UNCHANGED <<rawMaterialCosts, rawRecipes, stgRecipes, dimMaterial,
                   factCogsEstimate, lineCogs>>
    /\ UNCHANGED <<ctlVars, dataVars>>

BuildStgRecipes ==
    /\ dpc = "done"
    /\ cpc = "stg_recipes"
    /\ LET src == [r \in {x \in DOMAIN rawRecipes : x.recipe_id # ""} |->
                      rawRecipes[r]]
       IN  stgRecipes' =
               BagImage(src, [r \in DOMAIN src |->
                   [recipe_id |-> r.recipe_id,
                    variant |-> r.variant,
                    batch_size_ml |->
                        CastInteger(NullIf(r.batch_size_ml, "")),
                    ingredient_match |-> r.ingredient_match,
                    amount_ml |-> CastNumeric(NullIf(r.amount_ml, "")),
                    material_id |-> r.material_id]])
    /\ cpc' = "dim_material"
    /\ UNCHANGED <<rawMaterialCosts, rawRecipes, stgMaterialCosts,
                   dimMaterial, factCogsEstimate, lineCogs>>
    /\ UNCHANGED <<ctlVars, dataVars>>

\* dim_material: a copy of stg_material_costs.
BuildDimMaterial ==
    /\ dpc = "done"
    /\ cpc = "dim_material"
    /\ dimMaterial' = stgMaterialCosts
    /\ cpc' = "fact_cogs_estimate"
    /\ UNCHANGED <<rawMaterialCosts, rawRecipes, stgMaterialCosts,
                   stgRecipes, factCogsEstimate, lineCogs>>
    /\ UNCHANGED <<ctlVars, dataVars>>

\* As RecipeJoin, without AND r.variant = 'final'.
RecipeJoinAnyVariant ==
    UNION {UNION {UNION {{<<c, dp, r, dm>> :
                            dm \in
                              LET dms == {x \in Copies(dimMaterial) :
                                      x[1].material_id = r[1].material_id}
                              IN  IF dms = {} THEN {Null}
                                  ELSE {Val(x) : x \in dms}} :
                     r \in {x \in Copies(stgRecipes) :
                               /\ x[1].recipe_id = dp.recipe_id
                               /\ x[1].batch_size_ml # Null
                               /\ x[1].batch_size_ml = dp.size_ml}} :
              dp \in {x \in dimProduct :
                         Val(x.product_key) = c[1].product_key}} :
       c \in Copies(factOrderLine)}

\* fact_order_line JOIN dim_product JOIN stg_recipes LEFT JOIN dim_material:
\* <<c, dp, r, dm>> for the line c, its product dp, a recipe row r of the
\* product's recipe_id and size and of variant 'final', and a material row
\* dm of r's material_id (NULL when none).  A NULL equals nothing.
RecipeJoin ==
    UNION {UNION {UNION {{<<c, dp, r, dm>> :
                            dm \in
                              LET dms == {x \in Copies(dimMaterial) :
                                      x[1].material_id = r[1].material_id}
                              IN  IF dms = {} THEN {Null}
                                  ELSE {Val(x) : x \in dms}} :
                     r \in {x \in Copies(stgRecipes) :
                               /\ x[1].recipe_id = dp.recipe_id
                               /\ x[1].batch_size_ml # Null
                               /\ x[1].batch_size_ml = dp.size_ml
                               /\ x[1].variant = "final"}} :
              dp \in {x \in dimProduct :
                         Val(x.product_key) = c[1].product_key}} :
       c \in Copies(factOrderLine)}

\* CASE ... END AS line_cost for the recipe row r and the material row dm.
LineCost(r, dm) ==
    IF dm = Null THEN Val(0)
    ELSE LET m == TheVal(dm)[1]
         IN  IF m.has_known_cost /\ m.cost_per_ml # Null
                 THEN Times(r.amount_ml, m.cost_per_ml)
             ELSE IF m.has_known_cost /\ m.cost_per_unit # Null
                 THEN Times(m.cost_per_unit, Val(100))
             ELSE Val(0)

\* The SELECT list of fact_cogs_estimate; material_id stands for the
\* material_key.
CogsEstimate(c, r, dm) ==
    [order_line_key |-> c,
     product_key |-> c[1].product_key,
     material_key |-> IF dm = Null THEN Null
                      ELSE Val(TheVal(dm)[1].material_id),
     ingredient_name |-> r.ingredient_match,
     amount_ml |-> r.amount_ml,
     cost_per_ml |-> IF dm = Null THEN Null
                     ELSE Coalesce(TheVal(dm)[1].cost_per_ml,
                                   TheVal(dm)[1].cost_per_unit),
     line_cost |-> LineCost(r, dm),
     has_known_cost |-> dm # Null /\ TheVal(dm)[1].has_known_cost]

BuildFactCogsEstimate ==
    /\ dpc = "done"
    /\ cpc = "fact_cogs_estimate"
    /\ factCogsEstimate' =
           BagOfSet(RecipeJoin,
                    [j \in RecipeJoin |-> CogsEstimate(j[1], j[3][1], j[4])])
    /\ cpc' = "cogs_update"
    /\ UNCHANGED <<rawMaterialCosts, rawRecipes, stgMaterialCosts,
                   stgRecipes, dimMaterial, lineCogs>>
    /\ UNCHANGED <<ctlVars, dataVars>>

\* As CogsSummary, with BOOL_AND(NOT has_known_cost).
CogsSummaryAllUnknown(c) ==
    LET rows == {e \in DOMAIN factCogsEstimate : e.order_line_key = c}
        costed == {e \in rows : e.line_cost # Null}
    IN  IF rows = {} THEN Null
        ELSE Val([total_cogs |->
                      IF costed = {} THEN Null
                      ELSE Val(SumFn([e \in costed |->
                               TheVal(e.line_cost) * factCogsEstimate[e]])),
                  has_missing_cost |-> \A e \in rows : ~e.has_known_cost])

\* cogs_summary for order_line_key c: NULL when the line has no
\* fact_cogs_estimate row; SUM skips a NULL line_cost.
CogsSummary(c) ==
    LET rows == {e \in DOMAIN factCogsEstimate : e.order_line_key = c}
        costed == {e \in rows : e.line_cost # Null}
    IN  IF rows = {} THEN Null
        ELSE Val([total_cogs |->
                      IF costed = {} THEN Null
                      ELSE Val(SumFn([e \in costed |->
                               TheVal(e.line_cost) * factCogsEstimate[e]])),
                  has_missing_cost |-> \E e \in rows : ~e.has_known_cost])

\* As MarginPercent, with WHEN net_line_revenue <> 0.
MarginPercentNonZero(net, quantity, cogs) ==
    IF net = Null \/ TheVal(net) = 0 THEN Val(0)
    ELSE IF quantity = Null \/ TheVal(quantity) = 0 THEN Null
    ELSE LET n == TheVal(net) \div 100
             m == n - TheVal(quantity) * TheVal(cogs)
         IN  Val((2 * 1000 * m + n) \div (2 * n))

\* CASE WHEN net_line_revenue > 0 THEN ((net_line_revenue / NULLIF(quantity,
\* 0) - cogs) / (net_line_revenue / NULLIF(quantity, 0))) * 100 ELSE 0 END,
\* the quotients folded into one, rounded to a tenth of a percent.
MarginPercent(net, quantity, cogs) ==
    IF net = Null \/ TheVal(net) <= 0 THEN Val(0)
    ELSE IF quantity = Null \/ TheVal(quantity) = 0 THEN Null
    ELSE LET n == TheVal(net) \div 100
             m == n - TheVal(quantity) * TheVal(cogs)
         IN  Val((2 * 1000 * m + n) \div (2 * n))

\* As CogsUpdate, with estimated_cogs = cs.total_cogs.
CogsUpdateNoCoalesce(c) ==
    LET cs == CogsSummary(c)
    IN  IF cs = Null
            THEN [estimated_cogs |-> Null, has_missing_cost |-> Null,
                  margin_percent |-> Null]
        ELSE [estimated_cogs |-> TheVal(cs).total_cogs,
              has_missing_cost |-> Val(TheVal(cs).has_missing_cost),
              margin_percent |->
                  MarginPercent(c[1].net_line_revenue, c[1].quantity,
                                Coalesce(TheVal(cs).total_cogs, Val(0)))]

\* The cost columns of line c after UPDATE ... FROM cogs_summary: a line
\* without cogs_summary row keeps the NULLs it was inserted with.
CogsUpdate(c) ==
    LET cs == CogsSummary(c)
    IN  IF cs = Null
            THEN [estimated_cogs |-> Null, has_missing_cost |-> Null,
                  margin_percent |-> Null]
        ELSE [estimated_cogs |-> Coalesce(TheVal(cs).total_cogs, Val(0)),
              has_missing_cost |-> Val(TheVal(cs).has_missing_cost),
              margin_percent |->
                  MarginPercent(c[1].net_line_revenue, c[1].quantity,
                                Coalesce(TheVal(cs).total_cogs, Val(0)))]

\* UPDATE ... SET estimated_cogs = 0, has_missing_cost = true,
\* margin_percent = 100 WHERE estimated_cogs IS NULL
CogsDefault(x) ==
    IF x.estimated_cogs = Null
        THEN [estimated_cogs |-> Val(0), has_missing_cost |-> Val(TRUE),
              margin_percent |-> Val(10 * 100)]
    ELSE x

\* The two UPDATEs, executed and committed together.
UpdateFactOrderLineCogs ==
    /\ dpc = "done"
    /\ cpc = "cogs_update"
    /\ lineCogs' = [c \in Copies(factOrderLine) |-> CogsDefault(CogsUpdate(c))]
    /\ cpc' = "done"
    /\ UNCHANGED <<rawMaterialCosts, rawRecipes, stgMaterialCosts,
                   stgRecipes, dimMaterial, factCogsEstimate>>
    /\ UNCHANGED <<ctlVars, dataVars>>

MaxRecipeRows == 2

\* Contents of raw.orders: one order of one or two lines, with a positive,
\* zero, negative or NULL net line revenue.
CogsOrderTables ==
    LET Line(n, p, ld, dsc) ==
            RawOrder("1", "2025-01-01", "a@x.com", "web",
                     [subtotal |-> "20.00", discount_amount |-> dsc,
                      refunded_amount |-> "", shipping_method |-> "Standard",
                      lineitem_name |-> n, lineitem_quantity |-> "1",
                      lineitem_price |-> p, lineitem_discount |-> ld])
    IN  {BagOfSet(1..Len(t), t) :
            t \in {<<Line("Attar", "10.00", "", "2.00")>>,
                   <<Line("Attar", "0.00", "1.00", "")>>,
                   <<Line("Attar", "0.00", "", "2.00")>>,
                   <<Line("Attar", "", "", "")>>,
                   <<Line("Bakhoor", "10.00", "", "")>>,
                   <<Line("Attar", "10.00", "", "2.00"),
                     Line("Bakhoor", "10.00", "", "")>>}}

\* Contents of raw.product_sku_map: a product with recipe and size; one
\* without size; two products.
CogsSkuMaps ==
    {BagOfSet(1..Len(t), t) :
        t \in {<<RawSkuRecipe("ATT-3", "Attar", "R1", "3")>>,
               <<RawSkuRecipe("ATT-3", "Attar", "R1", "")>>,
               <<RawSkuRecipe("ATT-3", "Attar", "R1", "3"),
                 RawSkuRecipe("BKH-6", "Bakhoor", "R2", "6")>>}}

\* Rows of raw.recipes: ingredients of the final 3 ml variant of R1 (one
\* without amount, one of a material that has no cost row), and rows of a
\* draft, of another size, of another recipe, without size and without
\* recipe_id.
CogsRecipeRows ==
    {RawRecipe("R1", "final", "3", "Oud oil", "2.00", "M1"),
     RawRecipe("R1", "final", "3", "Bottle", "1.00", "M2"),
     RawRecipe("R1", "final", "3", "Musk", "", "M1"),
     RawRecipe("R1", "final", "3", "Amber", "1.00", "M9"),
     RawRecipe("R1", "draft", "3", "Draft oil", "2.00", "M1"),
     RawRecipe("R1", "final", "6", "Large oil", "2.00", "M1"),
     RawRecipe("R2", "final", "3", "Other oil", "2.00", "M1"),
     RawRecipe("R1", "final", "", "Unsized oil", "2.00", "M1"),
     RawRecipe("", "final", "3", "Unnamed oil", "2.00", "M1")}

\* Contents of raw.material_costs: costs per millilitre and per unit; a
\* material flagged as known without any cost; one flagged as unknown; a
\* material_id twice; a row without material_id and a blank flag.
CogsMaterialTables ==
    {BagOfSet(1..Len(t), t) :
        t \in {<<RawMaterial("M1", "TRUE", "1.00", ""),
                 RawMaterial("M2", "true", "", "5.00")>>,
               <<RawMaterial("M1", "TRUE", "", ""),
                 RawMaterial("M2", "true", "", "5.00")>>,
               <<RawMaterial("M1", "false", "1.00", ""),
                 RawMaterial("M2", "true", "", "5.00")>>,
               <<RawMaterial("M1", "TRUE", "1.00", ""),
                 RawMaterial("M1", "false", "", "")>>,
               <<RawMaterial("", "TRUE", "1.00", ""),
                 RawMaterial("M2", "", "", "5.00")>>}}

InitCogs ==
    /\ CtlInit
    /\ hasFK
    /\ NothingBuilt
    /\ rawOrders \in CogsOrderTables
    /\ rawCustomers = BagOfSet({1}, <<RawCustomer("1", "a@x.com")>>)
    /\ rawSkuMap \in CogsSkuMaps
    /\ cpc = "stg_material_costs"
    /\ rawMaterialCosts \in CogsMaterialTables
    /\ \E n \in 1..MaxRecipeRows :
           \E f \in [1..n -> CogsRecipeRows] :
               rawRecipes = BagOfSet(1..n, f)
    /\ stgMaterialCosts = EmptyBag
    /\ stgRecipes = EmptyBag
    /\ dimMaterial = EmptyBag
    /\ factCogsEstimate = EmptyBag
    /\ lineCogs = <<>>

NextCogs ==
    \/ NextBuild
    \/ BuildStgMaterialCosts
    \/ BuildStgRecipes
    \/ BuildDimMaterial
    \/ BuildFactCogsEstimate
    \/ UpdateFactOrderLineCogs

SpecCogs == InitCogs /\ [][NextCogs]_vars

C22_NoSilentZero ==
    cpc = "done" =>
        \A e \in DOMAIN factCogsEstimate :
            ~e.has_known_cost \/ e.cost_per_ml = Null =>
                lineCogs[e.order_line_key].has_missing_cost = Val(TRUE)

(***************************************************************************)
(* C23: every stg_order_lines row has its fact_order_line row, with        *)
(* product_key NULL when no SKU-map row has its item name; after           *)
(* build_facts a line without fact_cogs_estimate row has estimated_cogs 0, *)
(* has_missing_cost true and margin_percent 100, and a line with such rows *)
(* has the sum of their line_cost and the OR of their unknown costs, not   *)
(* these defaults.                                                         *)
(***************************************************************************)
C23_DefaultsOnlyWithoutEstimates ==
    cpc = "done" =>
        /\ \A l \in DOMAIN stgOrderLines :
               \E c \in DOMAIN lineCogs :
                   /\ c[1].order_id = l.order_id
                   /\ c[1].line_number = l.line_number
                   /\ (\A m \in DOMAIN stgProductSkuMap :
                           m.lineitem_name # l.lineitem_name)
                          => c[1].product_key = Null
        /\ \A c \in DOMAIN lineCogs :
               LET rows == {e \in DOMAIN factCogsEstimate :
                               e.order_line_key = c}
                   costed == {e \in rows : e.line_cost # Null}
               IN  IF rows = {}
                       THEN /\ lineCogs[c].estimated_cogs = Val(0)
                            /\ lineCogs[c].has_missing_cost = Val(TRUE)
                            /\ lineCogs[c].margin_percent = Val(10 * 100)
                   ELSE /\ lineCogs[c].estimated_cogs =
                               Val(SumFn([e \in costed |->
                                   TheVal(e.line_cost) * factCogsEstimate[e]]))
                        /\ lineCogs[c].has_missing_cost =
                               Val(\E e \in rows : ~e.has_known_cost)

\* A line without product and without fact_cogs_estimate row has the
\* defaults beside a line whose only ingredient has a NULL line_cost and
\* which keeps has_missing_cost = false.
C23_Witness ==
    /\ cpc = "done"
    /\ \E c, d \in DOMAIN lineCogs :
           /\ c[1].product_key = Null
           /\ lineCogs[c].margin_percent = Val(10 * 100)
           /\ lineCogs[c].has_missing_cost = Val(TRUE)
           /\ \E e \in DOMAIN factCogsEstimate :
                  e.order_line_key = d /\ e.line_cost = Null
           /\ lineCogs[d].estimated_cogs = Val(0)
           /\ lineCogs[d].has_missing_cost = Val(FALSE)

(***************************************************************************)
(* C24: after build_facts, every fact_order_line row whose                 *)
(* net_line_revenue is zero or negative has margin_percent = 0.            *)
(***************************************************************************)
C24_Original ==
    cpc = "done" =>
        \A c \in DOMAIN lineCogs :
            c[1].net_line_revenue # Null /\ TheVal(c[1].net_line_revenue) <= 0
                => lineCogs[c].margin_percent = Val(0)

(***************************************************************************)
(* C24 as the code has it: a row whose net_line_revenue is zero or         *)
(* negative has margin_percent = 0 when it has a fact_cogs_estimate row,   *)
(* and the default 100 when it has none.                                   *)
(***************************************************************************)
C24_Amended ==
    cpc = "done" =>
        \A c \in DOMAIN lineCogs :
            c[1].net_line_revenue # Null /\ TheVal(c[1].net_line_revenue) <= 0
                => lineCogs[c].margin_percent =
                       IF \E e \in DOMAIN factCogsEstimate :
                              e.order_line_key = c
                           THEN Val(0) ELSE Val(10 * 100)

\* A costed line of negative net_line_revenue has margin_percent 0.
C24_Witness ==
    /\ cpc = "done"
    /\ \E e \in DOMAIN factCogsEstimate :
           /\ e.line_cost # Null /\ TheVal(e.line_cost) > 0
           /\ TheVal(e.order_line_key[1].net_line_revenue) < 0
           /\ lineCogs[e.order_line_key].margin_percent = Val(0)

(***************************************************************************)
(* C25: every fact_cogs_estimate row comes from a stg_recipes row of       *)
(* variant 'final' whose recipe_id and batch size are those of the line's  *)
(* product, and a line whose product has no such recipe row has no         *)
(* fact_cogs_estimate row and takes the defaults, whatever other recipe    *)
(* rows there are.                                                         *)
(***************************************************************************)
C25_OnlyFinalRecipe ==
    LET usable(c) ==
            {r \in DOMAIN stgRecipes :
                \E dp \in dimProduct :
                    /\ Val(dp.product_key) = c[1].product_key
                    /\ r.variant = "final"
                    /\ r.recipe_id = dp.recipe_id
                    /\ r.batch_size_ml # Null
                    /\ r.batch_size_ml = dp.size_ml}
    IN  /\ cpc \in {"cogs_update", "done"} =>
               \A e \in DOMAIN factCogsEstimate :
                   \E r \in usable(e.order_line_key) :
                       /\ r.ingredient_match = e.ingredient_name
                       /\ r.amount_ml = e.amount_ml
        /\ cpc = "done" =>
               \A c \in DOMAIN lineCogs :
                   usable(c) = {} =>
                       /\ \A e \in DOMAIN factCogsEstimate :
                              e.order_line_key # c
                       /\ lineCogs[c].estimated_cogs = Val(0)
                       /\ lineCogs[c].has_missing_cost = Val(TRUE)

\* stg_recipes holds the final and a draft row of the product's recipe,
\* and fact_cogs_estimate only the ingredient of the final one.
C25_Witness ==
    /\ cpc = "done"
    /\ \E r, q \in DOMAIN stgRecipes :
           /\ r.variant = "final" /\ q.variant = "draft"
           /\ r.recipe_id = q.recipe_id
           /\ r.batch_size_ml = q.batch_size_ml
           /\ \E e \in DOMAIN factCogsEstimate :
                  e.ingredient_name = r.ingredient_match
           /\ \A e \in DOMAIN factCogsEstimate :
                  e.ingredient_name # q.ingredient_match

====
